---------------------------- MODULE Spec2Model ----------------------------
(***************************************************************************)
(* Terminology-server adapters of loincsnomed-lab-concepts                 *)
(* (scripts/terminology_server_adapters.py): the public Snowstorm variant, *)
(* the authenticated FHIR (OntoServer) variant and the factory.            *)
(*                                                                         *)
(* Texts are sequences of pieces (characters, or opaque segments of a URL) *)
(* so that lower(), rstrip(), strip() and percent-encoding are computed.   *)
(* Python dicts are functions whose DOMAIN is the set of keys present.     *)
(***************************************************************************)
EXTENDS Integers, Sequences, FiniteSets, TLC

VARIABLES
    adapter,      \* the adapter instance (its attributes), or NoAdapter
    HAS_PKCS12,   \* module flag set at import time
    pc,           \* "start" | "idle" | "waiting" | "returned" | "raised"
    input,        \* the arguments of a pending factory / encoding call
    call,         \* the adapter call in progress, and the machine it runs on
    request,      \* the HTTP request the call in progress has issued
    reply,        \* how that request ended: the backend's answer, or a failure
    result,       \* what the last call returned (or the error it raised)
    tempFiles,    \* number of temporary PEM files left on disk
    _LOINC_LOCAL_CACHE,  \* module global of loinc_display_fetcher
    fetcher,      \* the LOINCDisplayFetcher instance and the loop of fetch_displays
    tasks,        \* the lookups fetch_displays_async has handed to its worker pool
    sessions      \* the requests.Session objects _get_session has built that are still in use

vars == <<adapter, HAS_PKCS12, pc, input, call, request, reply, result, tempFiles,
          _LOINC_LOCAL_CACHE, fetcher, tasks, sessions>>

\* the state of the display fetcher, which no adapter operation touches
fetchVars == <<_LOINC_LOCAL_CACHE, fetcher, tasks>>

-----------------------------------------------------------------------------
(* Bounds of the model *)

MaxItems == 2       \* concepts in one backend answer
MaxLimit == 2       \* largest limit a caller passes
MaxTotal == 3       \* largest total a backend reports
MaxParams == 3      \* entries of a $lookup answer's parameter list
MaxDescs == 2       \* entries of a Snowstorm concept's descriptions list
MaxLen == 3         \* characters of a constraint expression (encoding)
MaxTempFiles == 2   \* temporary files the model lets accumulate

-----------------------------------------------------------------------------
(* Python values *)

\* Python's None, kept apart from every text (also from the text 'None').
None == <<"\\None">>

Truthy(v) == v # None /\ v # <<>>

\* x or d
Or(v, d) == IF Truthy(v) THEN v ELSE d

\* d.get(k, default)
Get(d, k, default) == IF k \in DOMAIN d THEN d[k] ELSE default

\* d[k] = v
DictSet(d, k, v) == [x \in (DOMAIN d) \cup {k} |-> IF x = k THEN v ELSE d[x]]

EmptyDict == [x \in {} |-> 0]

UpperLetters == <<"A","B","C","D","E","F","G","H","I","J","K","L","M",
                  "N","O","P","Q","R","S","T","U","V","W","X","Y","Z">>
LowerLetters == <<"a","b","c","d","e","f","g","h","i","j","k","l","m",
                  "n","o","p","q","r","s","t","u","v","w","x","y","z">>

LowerChar(c) ==
    IF \E i \in DOMAIN UpperLetters : UpperLetters[i] = c
    THEN LowerLetters[CHOOSE i \in DOMAIN UpperLetters : UpperLetters[i] = c]
    ELSE c

\* str.lower()
Lower(s) == [i \in DOMAIN s |-> LowerChar(s[i])]

RECURSIVE RStrip(_, _)
\* str.rstrip(chars)
RStrip(s, chars) ==
    IF s # <<>> /\ s[Len(s)] \in chars THEN RStrip(SubSeq(s, 1, Len(s) - 1), chars) ELSE s

RECURSIVE LStrip(_, _)
LStrip(s, chars) ==
    IF s # <<>> /\ s[1] \in chars THEN LStrip(Tail(s), chars) ELSE s

\* str.strip(chars)
Strip(s, chars) == LStrip(RStrip(s, chars), chars)

\* os.path.join(a, b) on a POSIX system
PathJoin(a, b) ==
    IF b # <<>> /\ b[1] = "/" THEN b
    ELSE IF a = <<>> \/ a[Len(a)] = "/" THEN a \o b
    ELSE a \o <<"/">> \o b

-----------------------------------------------------------------------------
(* Program constants *)

DEFAULT_API_BASE == <<"http://browser.loincsnomed.org/snowstorm/snomed-ct">>
DEFAULT_BRANCH == <<"MAIN/LOINC/2025-09-21">>
DEFAULT_CODE_SYSTEM_URL == <<"http://snomed.info/sct">>
DEFAULT_VERSION_URL == <<"http://snomed.info/sct/11010000107/version/20250921">>

FSN_TYPE == <<"900000000000003001">>
PT_TYPE == <<"900000000000013009">>
UNKNOWN == <<"Unknown">>

STATUS_OK == 200

TAG_LOINCSNOMED == <<"l","o","i","n","c","s","n","o","m","e","d">>
TAG_ONTOSERVER == <<"o","n","t","o","s","e","r","v","e","r">>

-----------------------------------------------------------------------------
(* Construction *)

NoValue == [kind |-> "none"]
NoAdapter == NoValue

SnowstormKeys == {"api_base", "branch"}
OntoServerKeys == {"base_url", "code_system_url", "version_url", "use_post",
                   "cert_path", "cert_password"}

\* LOINCSNOMEDSnowstormAdapter.__init__
LOINCSNOMEDSnowstormAdapter(kwargs) ==
    [kind |-> "loincsnomed",
     api_base |-> Or(Get(kwargs, "api_base", None), DEFAULT_API_BASE),
     branch |-> Or(Get(kwargs, "branch", None), DEFAULT_BRANCH)]

\* cert_path as __init__ derives it when the caller gave none
EnvCertPath(env) ==
    LET auth_path == Get(env, "auth_path", <<>>)
        auth_file == Get(env, "auth_file", <<>>)
    IN  IF auth_path # <<>> /\ auth_file # <<>>
        THEN PathJoin(auth_path, Strip(auth_file, {"\"", "'"}))
        ELSE None

\* cert_password as __init__ derives it when the caller gave none
EnvCertPassword(env) ==
    LET pw == Get(env, "auth_pw", None)
    IN  IF ~Truthy(pw) \/ pw \in {<<"None">>, <<"none">>} THEN None ELSE pw

\* OntoServerAdapter.__init__
OntoServerAdapter(kwargs, env) ==
    LET cert_path == Get(kwargs, "cert_path", None)
        cert_password == Get(kwargs, "cert_password", None)
    IN  [kind |-> "ontoserver",
         base_url |-> RStrip(kwargs["base_url"], {"/"}),
         code_system_url |-> Or(Get(kwargs, "code_system_url", None), DEFAULT_CODE_SYSTEM_URL),
         version_url |-> Or(Get(kwargs, "version_url", None), DEFAULT_VERSION_URL),
         use_post |-> Get(kwargs, "use_post", FALSE),
         cert_path |-> IF cert_path = None THEN EnvCertPath(env) ELSE cert_path,
         cert_password |-> IF cert_password = None THEN EnvCertPassword(env)
                           ELSE cert_password]

Raised(error) == [raised |-> TRUE, error |-> error, value |-> NoValue]
Returned(value) == [raised |-> FALSE, error |-> "", value |-> value]

\* the tag compared as given, without lower()
create_adapter_case_sensitive(server_type, kwargs, env) ==
    IF server_type = TAG_LOINCSNOMED
    THEN IF DOMAIN kwargs \subseteq SnowstormKeys
         THEN Returned(LOINCSNOMEDSnowstormAdapter(kwargs))
         ELSE Raised("TypeError")
    ELSE IF server_type = TAG_ONTOSERVER
    THEN IF DOMAIN kwargs \subseteq OntoServerKeys /\ "base_url" \in DOMAIN kwargs
         THEN Returned(OntoServerAdapter(kwargs, env))
         ELSE Raised("TypeError")
    ELSE Raised("ValueError")

\* create_adapter(server_type, **kwargs): the adapter, or the error raised
create_adapter(server_type, kwargs, env) ==
    IF Lower(server_type) = TAG_LOINCSNOMED
    THEN IF DOMAIN kwargs \subseteq SnowstormKeys
         THEN Returned(LOINCSNOMEDSnowstormAdapter(kwargs))
         ELSE Raised("TypeError")
    ELSE IF Lower(server_type) = TAG_ONTOSERVER
    THEN IF DOMAIN kwargs \subseteq OntoServerKeys /\ "base_url" \in DOMAIN kwargs
         THEN Returned(OntoServerAdapter(kwargs, env))
         ELSE Raised("TypeError")
    ELSE Raised("ValueError")

-----------------------------------------------------------------------------
(* Percent-encoding: urllib.parse.quote / unquote *)

HexDigits == <<"0","1","2","3","4","5","6","7","8","9","A","B","C","D","E","F">>
LowerHexDigits == <<"0","1","2","3","4","5","6","7","8","9","a","b","c","d","e","f">>

\* The characters the model writes expressions with, and their UTF-8 bytes.
KnownChars == {"a", "A", "<", " ", "%", "/", "+", "4", "1", "U+00E9"}

CharBytes(c) ==
    CASE c = "a" -> <<97>>
      [] c = "A" -> <<65>>
      [] c = "<" -> <<60>>
      [] c = " " -> <<32>>
      [] c = "%" -> <<37>>
      [] c = "/" -> <<47>>
      [] c = "+" -> <<43>>
      [] c = "4" -> <<52>>
      [] c = "1" -> <<49>>
      [] c = "U+00E9" -> <<195, 169>>
      [] OTHER -> <<63>>

\* _ALWAYS_SAFE of urllib.parse, restricted to KnownChars
AlwaysSafe == {"a", "A", "4", "1"}

HexOf(b) == <<"%", HexDigits[(b \div 16) + 1], HexDigits[(b % 16) + 1]>>

RECURSIVE QuoteBytes(_)
QuoteBytes(bs) == IF bs = <<>> THEN <<>> ELSE HexOf(bs[1]) \o QuoteBytes(Tail(bs))

RECURSIVE Quote(_, _)
\* urllib.parse.quote(s, safe)
Quote(s, safe) ==
    IF s = <<>> THEN <<>>
    ELSE (IF s[1] \in AlwaysSafe \cup safe THEN <<s[1]>> ELSE QuoteBytes(CharBytes(s[1])))
         \o Quote(Tail(s), safe)

IsHex(c) ==
    \E i \in 1..16 : HexDigits[i] = c \/ LowerHexDigits[i] = c

HexVal(c) ==
    (CHOOSE i \in 1..16 : HexDigits[i] = c \/ LowerHexDigits[i] = c) - 1

RECURSIVE UnquoteToBytes(_)
\* urllib.parse.unquote_to_bytes: %XX becomes a byte, everything else stays
UnquoteToBytes(s) ==
    IF s = <<>> THEN <<>>
    ELSE IF s[1] = "%" /\ Len(s) >= 3 /\ IsHex(s[2]) /\ IsHex(s[3])
         THEN <<16 * HexVal(s[2]) + HexVal(s[3])>> \o UnquoteToBytes(SubSeq(s, 4, Len(s)))
         ELSE CharBytes(s[1]) \o UnquoteToBytes(Tail(s))

IsPrefix(p, s) == Len(p) <= Len(s) /\ SubSeq(s, 1, Len(p)) = p

RECURSIVE DecodeUtf8(_)
\* bytes.decode('utf-8', errors='replace')
DecodeUtf8(bs) ==
    IF bs = <<>> THEN <<>>
    ELSE IF \E c \in KnownChars : IsPrefix(CharBytes(c), bs)
         THEN LET c == CHOOSE c \in KnownChars : IsPrefix(CharBytes(c), bs)
              IN  <<c>> \o DecodeUtf8(SubSeq(bs, Len(CharBytes(c)) + 1, Len(bs)))
         ELSE <<"U+FFFD">> \o DecodeUtf8(Tail(bs))

\* urllib.parse.unquote(s)
Unquote(s) == DecodeUtf8(UnquoteToBytes(s))

-----------------------------------------------------------------------------
(* Sessions *)

PlainSession == [cert |-> "none", https_adapter |-> "default"]

\* What a _get_session call finds on the machine it runs on.
Machines ==
    [exists : BOOLEAN, direct_decoding : {"ok", "fails"}, pkcs12_adapter : {"ok", "fails"}]

\* session = requests.Session(): an object of its own, apart from every session in use
NewSession(live) ==
    CHOOSE n \in 1..(Cardinality(live) + 1) : n \notin live /\ \A m \in 1..(n - 1) : m \in live

\* no session: the value of a reference that names none
NoSession == 0

\* the test os.path.exists(self.cert_path) left out
_get_session_unchecked(self, has_pkcs12, machine) ==
    IF ~has_pkcs12
    THEN [session |-> PlainSession, created |-> 0, attempts |-> <<>>]
    ELSE IF Truthy(self.cert_path)
    THEN IF machine.direct_decoding = "ok"
         THEN [session |-> [cert |-> "pem_pair", https_adapter |-> "default"], created |-> 2,
               attempts |-> <<"direct">>]
         ELSE IF machine.pkcs12_adapter = "ok"
         THEN [session |-> [cert |-> "none", https_adapter |-> "pkcs12"], created |-> 0,
               attempts |-> <<"direct", "Pkcs12Adapter">>]
         ELSE [session |-> PlainSession, created |-> 0,
               attempts |-> <<"direct", "Pkcs12Adapter">>]
    ELSE [session |-> PlainSession, created |-> 0, attempts |-> <<>>]

\* the library adapter tried first, the direct decoding only when it cannot be built
_get_session_library_first(self, has_pkcs12, machine) ==
    IF ~has_pkcs12
    THEN [session |-> PlainSession, created |-> 0, attempts |-> <<>>]
    ELSE IF Truthy(self.cert_path) /\ machine.exists
    THEN IF machine.pkcs12_adapter = "ok"
         THEN [session |-> [cert |-> "none", https_adapter |-> "pkcs12"], created |-> 0,
               attempts |-> <<"Pkcs12Adapter">>]
         ELSE IF machine.direct_decoding = "ok"
         THEN [session |-> [cert |-> "pem_pair", https_adapter |-> "default"], created |-> 2,
               attempts |-> <<"Pkcs12Adapter", "direct">>]
         ELSE [session |-> PlainSession, created |-> 0,
               attempts |-> <<"Pkcs12Adapter", "direct">>]
    ELSE [session |-> PlainSession, created |-> 0, attempts |-> <<>>]


\* the certificate file read whether or not requests_pkcs12 could be imported
_get_session_without_flag(self, has_pkcs12, machine) ==
    IF Truthy(self.cert_path) /\ machine.exists
    THEN IF machine.direct_decoding = "ok"
         THEN [session |-> [cert |-> "pem_pair", https_adapter |-> "default"], created |-> 2,
               attempts |-> <<"direct">>]
         ELSE IF has_pkcs12 /\ machine.pkcs12_adapter = "ok"
         THEN [session |-> [cert |-> "none", https_adapter |-> "pkcs12"], created |-> 0,
               attempts |-> <<"direct", "Pkcs12Adapter">>]
         ELSE [session |-> PlainSession, created |-> 0,
               attempts |-> <<"direct", "Pkcs12Adapter">>]
    ELSE [session |-> PlainSession, created |-> 0, attempts |-> <<>>]

\* OntoServerAdapter._get_session: the session, the temporary files created, and
\* the ways of reading the certificate it went through, in the order of its try blocks
_get_session(self, has_pkcs12, machine) ==
    IF ~has_pkcs12
    THEN [session |-> PlainSession, created |-> 0, attempts |-> <<>>]
    ELSE IF Truthy(self.cert_path) /\ machine.exists
    THEN IF machine.direct_decoding = "ok"
         THEN [session |-> [cert |-> "pem_pair", https_adapter |-> "default"], created |-> 2,
               attempts |-> <<"direct">>]
         ELSE IF machine.pkcs12_adapter = "ok"
         THEN [session |-> [cert |-> "none", https_adapter |-> "pkcs12"], created |-> 0,
               attempts |-> <<"direct", "Pkcs12Adapter">>]
         ELSE [session |-> PlainSession, created |-> 0,
               attempts |-> <<"direct", "Pkcs12Adapter">>]
    ELSE [session |-> PlainSession, created |-> 0, attempts |-> <<>>]

-----------------------------------------------------------------------------
(* Requests *)

NoRequest == [method |-> "none"]

\* the request sent without the active-only filter
SnowstormQueryRequestUnfiltered(self, ecl_expression, limit) ==
    [method |-> "GET",
     url |-> self.api_base \o <<"/">> \o self.branch \o <<"/concepts">>,
     params |-> [ecl |-> ecl_expression, limit |-> limit],
     json |-> EmptyDict,
     session |-> PlainSession]

\* the default limit sent whatever the caller asked for
SnowstormQueryRequestDefaultLimit(self, ecl_expression, limit) ==
    [method |-> "GET",
     url |-> self.api_base \o <<"/">> \o self.branch \o <<"/concepts">>,
     params |-> [ecl |-> ecl_expression, limit |-> 1000, activeFilter |-> <<"true">>],
     json |-> EmptyDict,
     session |-> PlainSession]

\* LOINCSNOMEDSnowstormAdapter.execute_ecl_query: the request it sends
SnowstormQueryRequest(self, ecl_expression, limit) ==
    [method |-> "GET",
     url |-> self.api_base \o <<"/">> \o self.branch \o <<"/concepts">>,
     params |-> [ecl |-> ecl_expression, limit |-> limit, activeFilter |-> <<"true">>],
     json |-> EmptyDict,
     session |-> PlainSession]

\* LOINCSNOMEDSnowstormAdapter.get_concept_details: the request it sends
SnowstormLookupRequest(self, concept_id) ==
    [method |-> "GET",
     url |-> self.api_base \o <<"/">> \o self.branch \o <<"/concepts/">> \o concept_id,
     params |-> EmptyDict,
     json |-> EmptyDict,
     session |-> PlainSession]

\* The ValueSet body of POST-body mode
ValueSetBody(self, ecl_expression) ==
    [resourceType |-> <<"ValueSet">>,
     compose |-> [include |-> <<
        [system |-> self.code_system_url,
         version |-> self.version_url,
         filter |-> << [property |-> <<"constraint">>, op |-> <<"=">>,
                        value |-> ecl_expression] >>] >>]]

\* the expression embedded as it is, without quote()
FhirVsUrlUnquoted(self, ecl_expression) ==
    LET ecl_param == <<"ecl/">> \o ecl_expression
    IN  self.version_url \o <<"?fhir_vs=">> \o ecl_param

\* The url parameter of query-parameter mode
FhirVsUrl(self, ecl_expression) ==
    LET ecl_param == <<"ecl/">> \o Quote(ecl_expression, {})
    IN  self.version_url \o <<"?fhir_vs=">> \o ecl_param

\* the encoding chosen per call: a POST whenever the caller asks for more than one
\* concept
OntoServerQueryRequestModeByLimit(self, ecl_expression, limit, session) ==
    IF self.use_post \/ limit > 1
    THEN [method |-> "POST",
          url |-> self.base_url \o <<"/ValueSet/$expand">>,
          params |-> [count |-> limit],
          json |-> ValueSetBody(self, ecl_expression),
          session |-> session]
    ELSE [method |-> "GET",
          url |-> self.base_url \o <<"/ValueSet/$expand">>,
          params |-> [url |-> FhirVsUrl(self, ecl_expression), count |-> limit],
          json |-> EmptyDict,
          session |-> session]

\* OntoServerAdapter.execute_ecl_query: the request it sends
OntoServerQueryRequest(self, ecl_expression, limit, session) ==
    IF self.use_post
    THEN [method |-> "POST",
          url |-> self.base_url \o <<"/ValueSet/$expand">>,
          params |-> [count |-> limit],
          json |-> ValueSetBody(self, ecl_expression),
          session |-> session]
    ELSE [method |-> "GET",
          url |-> self.base_url \o <<"/ValueSet/$expand">>,
          params |-> [url |-> FhirVsUrl(self, ecl_expression), count |-> limit],
          json |-> EmptyDict,
          session |-> session]

\* OntoServerAdapter.get_concept_details: the request it sends
OntoServerLookupRequest(self, concept_id, session) ==
    [method |-> "GET",
     url |-> self.base_url \o <<"/CodeSystem/$lookup">>,
     params |-> [system |-> self.code_system_url, code |-> concept_id,
                 version |-> self.version_url],
     json |-> EmptyDict,
     session |-> session]


-----------------------------------------------------------------------------
(* Backend answers *)

\* response.json(): a JSON object, a JSON value that is no object, or a body
\* that is no JSON at all (json() raises)
JsonDict(d) == [type |-> "dict", value |-> d]
JsonList == [type |-> "list", value |-> EmptyDict]
JsonInvalid == [type |-> "invalid", value |-> EmptyDict]

\* What the network call ends with: an exception, or a response
NetworkError == [exception |-> TRUE, status |-> 0, json |-> JsonInvalid]
Response(status, json) == [exception |-> FALSE, status |-> status, json |-> json]
NoResponse == [exception |-> FALSE, status |-> 0, json |-> JsonInvalid]

Statuses == {200, 204, 401, 403, 404, 500}

ElapsedTimes == {0, 1}

ConceptIds == {<<"111">>, <<"222">>}

SeqsUpTo(S, n) == UNION {[1..k -> S] : k \in 0..n}

\* the dicts that give key k a value of V, or leave it out
Opt(k, V) == {EmptyDict} \cup {k :> v : v \in V}

\* the dicts over two optional keys
Dicts(k1, V1, k2, V2) == {a @@ b : a \in Opt(k1, V1), b \in Opt(k2, V2)}

\* Items as Snowstorm returns them
SnowstormItems ==
    {[conceptId |-> <<"111">>, fsn |-> [term |-> <<"Hb (obs)">>], pt |-> [term |-> <<"Hb">>]],
     [conceptId |-> <<"222">>, fsn |-> [term |-> <<"RBC (obs)">>], pt |-> [term |-> <<"RBC">>]]}

SnowstormQueryBodies ==
    Dicts("items", SeqsUpTo(SnowstormItems, MaxItems), "total", 0..MaxTotal)

Designation(use_code, value) == [use |-> [code |-> use_code], value |-> value]

\* Entries of expansion.contains as a FHIR server returns them
FhirConcepts ==
    {[code |-> <<"111">>, display |-> <<"Hb">>],
     [code |-> <<"222">>, display |-> <<"RBC">>,
      designation |-> <<Designation(FSN_TYPE, <<"RBC (obs)">>),
                        Designation(PT_TYPE, <<"RBC count">>)>>],
     [code |-> <<"222">>,
      designation |-> <<Designation(<<"900000000000550004">>, <<"Def">>),
                        [use |-> [code |-> FSN_TYPE]]>>],
     [code |-> <<"111">>, display |-> <<"Hb">>,
      designation |-> <<Designation(<<"900000000000550004">>, <<"Def">>),
                        Designation(PT_TYPE, <<"Haemoglobin">>)>>]}

FhirExpansions ==
    Dicts("contains", SeqsUpTo(FhirConcepts, MaxItems), "total", 0..MaxTotal)

FhirQueryBodies == Opt("expansion", FhirExpansions)

-----------------------------------------------------------------------------
(* execute_ecl_query: from the backend's answer to the Query Result *)


\* an empty result that says it stands for a failure
EmptyResultFlagged(execution_time) ==
    [items |-> <<>>, total |-> 0, execution_time |-> execution_time, error |-> TRUE]

EmptyResult(execution_time) ==
    [items |-> <<>>, total |-> 0, execution_time |-> execution_time]

\* LOINCSNOMEDSnowstormAdapter.execute_ecl_query, lines 100-109: the try body
SnowstormQueryTry(response, execution_time) ==
    IF response.exception THEN Raised("RequestException")
    ELSE IF response.status = STATUS_OK
    THEN IF response.json.type = "invalid" THEN Raised("JSONDecodeError")
         ELSE IF response.json.type # "dict" THEN Raised("TypeError")
         ELSE Returned(DictSet(response.json.value, "execution_time", execution_time))
    ELSE Returned(EmptyResult(execution_time))

\* the handler left out: the exception reaches the caller
CatchQueryMissing(attempt, execution_time) == attempt

\* try: ... except Exception: return the empty result
CatchQuery(attempt, execution_time) ==
    IF attempt.raised THEN Returned(EmptyResult(execution_time)) ELSE attempt

\* LOINCSNOMEDSnowstormAdapter.execute_ecl_query, after the request
SnowstormQueryResult(response, execution_time) ==
    CatchQuery(SnowstormQueryTry(response, execution_time), execution_time)

RECURSIVE ScanDesignationsAnyUse(_, _, _)
\* the use code not looked at: every designation taken for the Fully Specified Name
ScanDesignationsAnyUse(designations, fsn, pt) ==
    IF designations = <<>> THEN [fsn |-> fsn, pt |-> pt]
    ELSE ScanDesignationsAnyUse(Tail(designations),
                                Get(designations[1], "value", fsn), pt)

RECURSIVE ScanDesignations(_, _, _)
\* the loop over concept.get('designation', [])
ScanDesignations(designations, fsn, pt) ==
    IF designations = <<>> THEN [fsn |-> fsn, pt |-> pt]
    ELSE LET designation == designations[1]
             use == Get(designation, "use", EmptyDict)
             use_code == Get(use, "code", <<>>)
         IN  IF use_code = FSN_TYPE
             THEN ScanDesignations(Tail(designations), Get(designation, "value", fsn), pt)
             ELSE IF use_code = PT_TYPE
             THEN ScanDesignations(Tail(designations), fsn, Get(designation, "value", pt))
             ELSE ScanDesignations(Tail(designations), fsn, pt)

\* one pass of the loop over expansion.contains
NormalizeConcept(concept) ==
    LET code == Get(concept, "code", None)
        display == Get(concept, "display", UNKNOWN)
        names == ScanDesignations(Get(concept, "designation", <<>>), display, display)
    IN  [conceptId |-> code, fsn |-> [term |-> names.fsn], pt |-> [term |-> names.pt]]

RECURSIVE NormalizeContainsPerDesignation(_)
\* items.append one level too deep: once per designation, and once per concept
NormalizeContainsPerDesignation(contains) ==
    IF contains = <<>> THEN <<>>
    ELSE [i \in 1..(Len(Get(contains[1], "designation", <<>>)) + 1) |->
             NormalizeConcept(contains[1])]
         \o NormalizeContainsPerDesignation(Tail(contains))

\* the items collected back to front
NormalizeContainsReversed(contains) ==
    [i \in DOMAIN contains |-> NormalizeConcept(contains[Len(contains) + 1 - i])]

\* the loop over expansion.contains
NormalizeContains(contains) == [i \in DOMAIN contains |-> NormalizeConcept(contains[i])]

\* total always counted from the items, whatever expansion.total says
OntoServerQueryTryCountingItems(response, execution_time) ==
    IF response.exception THEN Raised("RequestException")
    ELSE IF response.status = STATUS_OK
    THEN IF response.json.type = "invalid" THEN Raised("JSONDecodeError")
         ELSE IF response.json.type # "dict" THEN Raised("AttributeError")
         ELSE LET expansion == Get(response.json.value, "expansion", EmptyDict)
                  items == NormalizeContains(Get(expansion, "contains", <<>>))
              IN  Returned([items |-> items,
                            total |-> Len(items),
                            execution_time |-> execution_time])
    ELSE Returned(EmptyResult(execution_time))

\* OntoServerAdapter.execute_ecl_query, lines 314-354: the try body after the request
OntoServerQueryTry(response, execution_time) ==
    IF response.exception THEN Raised("RequestException")
    ELSE IF response.status = STATUS_OK
    THEN IF response.json.type = "invalid" THEN Raised("JSONDecodeError")
         ELSE IF response.json.type # "dict" THEN Raised("AttributeError")
         ELSE LET expansion == Get(response.json.value, "expansion", EmptyDict)
                  items == NormalizeContains(Get(expansion, "contains", <<>>))
              IN  Returned([items |-> items,
                            total |-> Get(expansion, "total", Len(items)),
                            execution_time |-> execution_time])
    ELSE Returned(EmptyResult(execution_time))

\* OntoServerAdapter.execute_ecl_query, after the request
OntoServerQueryResult(response, execution_time) ==
    CatchQuery(OntoServerQueryTry(response, execution_time), execution_time)


-----------------------------------------------------------------------------
(* get_concept_details: from the backend's answer to the descriptor *)

\* JSON null where an object is expected
JsonNull == [null |-> TRUE]

UnknownDescriptor(concept_id) ==
    [concept_id |-> concept_id, fsn |-> UNKNOWN, pt |-> UNKNOWN]

Description(type, term) == [type |-> [conceptId |-> type], term |-> term]

\* Entries of a Snowstorm concept's descriptions list
SnowstormDescriptions ==
    {Description(FSN_TYPE, <<"Hb (obs)">>),
     Description(FSN_TYPE, <<"Hb (o.e.)">>),
     Description(PT_TYPE, <<"Hb">>),
     [type |-> [conceptId |-> FSN_TYPE]]}

SnowstormLookupBodies ==
    {a @@ b @@ c :
        a \in Opt("descriptions", SeqsUpTo(SnowstormDescriptions, MaxDescs)),
        b \in Opt("fsn", {[term |-> <<"Hb (obs)">>], EmptyDict, JsonNull}),
        c \in Opt("pt", {[term |-> <<"Hb">>], EmptyDict, JsonNull})}

RECURSIVE LastFsnTerm(_)
\* the loop without its break: the last FSN entry decides
LastFsnTerm(descriptions) ==
    IF descriptions = <<>> THEN None
    ELSE LET desc == descriptions[Len(descriptions)]
         IN  IF Get(Get(desc, "type", EmptyDict), "conceptId", None) = FSN_TYPE
             THEN Get(desc, "term", None)
             ELSE LastFsnTerm(SubSeq(descriptions, 1, Len(descriptions) - 1))

RECURSIVE FirstFsnTerm(_)
\* the loop over data.get('descriptions', []), which stops at the first FSN entry
FirstFsnTerm(descriptions) ==
    IF descriptions = <<>> THEN None
    ELSE LET desc == descriptions[1]
         IN  IF Get(Get(desc, "type", EmptyDict), "conceptId", None) = FSN_TYPE
             THEN Get(desc, "term", None)
             ELSE FirstFsnTerm(Tail(descriptions))

\* LOINCSNOMEDSnowstormAdapter.get_concept_details, lines 119-136: the try body
SnowstormLookupTry(response, concept_id) ==
    IF response.exception THEN Raised("RequestException")
    ELSE IF response.status = STATUS_OK
    THEN IF response.json.type = "invalid" THEN Raised("JSONDecodeError")
         ELSE IF response.json.type # "dict" THEN Raised("AttributeError")
         ELSE LET data == response.json.value
                  fsn == FirstFsnTerm(Get(data, "descriptions", <<>>))
                  fsnField == Get(data, "fsn", EmptyDict)
                  ptField == Get(data, "pt", EmptyDict)
              IN  IF ~Truthy(fsn) /\ fsnField = JsonNull THEN Raised("AttributeError")
                  ELSE IF ptField = JsonNull THEN Raised("AttributeError")
                  ELSE Returned([concept_id |-> concept_id,
                                 fsn |-> IF Truthy(fsn) THEN fsn
                                         ELSE Get(fsnField, "term", UNKNOWN),
                                 pt |-> Get(ptField, "term", UNKNOWN)])
    ELSE Returned(UnknownDescriptor(concept_id))

\* the handler left out: the exception reaches the caller
CatchLookupMissing(attempt, concept_id) == attempt

\* try: ... except Exception: return the "Unknown" descriptor
CatchLookup(attempt, concept_id) ==
    IF attempt.raised THEN Returned(UnknownDescriptor(concept_id)) ELSE attempt

\* LOINCSNOMEDSnowstormAdapter.get_concept_details, after the request
SnowstormLookupResult(response, concept_id) ==
    CatchLookup(SnowstormLookupTry(response, concept_id), concept_id)

DesignationParam(use_code, value) ==
    [name |-> <<"designation">>,
     part |-> << [name |-> <<"use">>, valueCoding |-> [code |-> use_code]],
                 [name |-> <<"value">>, valueString |-> value] >>]

\* Entries of the parameter list of a $lookup answer
FhirParameters ==
    {[name |-> <<"code">>],
     [name |-> <<"display">>, valueString |-> <<"Hb">>],
     DesignationParam(FSN_TYPE, <<"Hb (obs)">>),
     DesignationParam(PT_TYPE, <<"Hb">>),
     DesignationParam(PT_TYPE, <<"Haemoglobin">>),
     DesignationParam(<<"900000000000550004">>, <<"Def">>)}

FhirLookupBodies == Opt("parameter", SeqsUpTo(FhirParameters, MaxParams))

RECURSIVE LastValueString(_, _)
\* for p2 in param.get('part', []): if p2 is the 'value' part, take its valueString
LastValueString(parts, current) ==
    IF parts = <<>> THEN current
    ELSE LET p2 == parts[1]
         IN  IF Get(p2, "name", None) = <<"value">>
             THEN LastValueString(Tail(parts), Get(p2, "valueString", current))
             ELSE LastValueString(Tail(parts), current)

RECURSIVE ScanPartsSwapped(_, _, _, _)
\* the two use codes taken for each other
ScanPartsSwapped(rest, parts, fsn, pt) ==
    IF rest = <<>> THEN [fsn |-> fsn, pt |-> pt]
    ELSE LET part == rest[1]
             use_code == Get(Get(part, "valueCoding", EmptyDict), "code", <<>>)
         IN  IF Get(part, "name", None) = <<"use">> /\ use_code = PT_TYPE
             THEN ScanPartsSwapped(Tail(rest), parts, LastValueString(parts, fsn), pt)
             ELSE IF Get(part, "name", None) = <<"use">> /\ use_code = FSN_TYPE
             THEN ScanPartsSwapped(Tail(rest), parts, fsn, LastValueString(parts, pt))
             ELSE ScanPartsSwapped(Tail(rest), parts, fsn, pt)

RECURSIVE ScanParts(_, _, _, _)
\* for part in param.get('part', []): a 'use' part decides which name the value is
ScanParts(rest, parts, fsn, pt) ==
    IF rest = <<>> THEN [fsn |-> fsn, pt |-> pt]
    ELSE LET part == rest[1]
             use_code == Get(Get(part, "valueCoding", EmptyDict), "code", <<>>)
         IN  IF Get(part, "name", None) = <<"use">> /\ use_code = FSN_TYPE
             THEN ScanParts(Tail(rest), parts, LastValueString(parts, fsn), pt)
             ELSE IF Get(part, "name", None) = <<"use">> /\ use_code = PT_TYPE
             THEN ScanParts(Tail(rest), parts, fsn, LastValueString(parts, pt))
             ELSE ScanParts(Tail(rest), parts, fsn, pt)

RECURSIVE ScanParameters(_, _, _)
\* for param in fhir_response.get('parameter', [])
ScanParameters(params, fsn, pt) ==
    IF params = <<>> THEN [fsn |-> fsn, pt |-> pt]
    ELSE LET param == params[1]
             parts == Get(param, "part", <<>>)
             names == IF Get(param, "name", None) = <<"designation">>
                      THEN ScanParts(parts, parts, fsn, pt)
                      ELSE [fsn |-> fsn, pt |-> pt]
         IN  ScanParameters(Tail(params), names.fsn, names.pt)

\* OntoServerAdapter.get_concept_details, lines 376-405: the try body after the request
OntoServerLookupTry(response, concept_id) ==
    IF response.exception THEN Raised("RequestException")
    ELSE IF response.status = STATUS_OK
    THEN IF response.json.type = "invalid" THEN Raised("JSONDecodeError")
         ELSE IF response.json.type # "dict" THEN Raised("AttributeError")
         ELSE LET fhir_response == response.json.value
                  first == Get(fhir_response, "parameter", <<EmptyDict>>)
              IN  IF first = <<>> THEN Raised("IndexError")
                  ELSE LET display == Get(first[1], "valueString", UNKNOWN)
                           names == ScanParameters(Get(fhir_response, "parameter", <<>>),
                                                   display, display)
                       IN  Returned([concept_id |-> concept_id,
                                     fsn |-> names.fsn, pt |-> names.pt])
    ELSE Returned(UnknownDescriptor(concept_id))

\* OntoServerAdapter.get_concept_details, after the request
OntoServerLookupResult(response, concept_id) ==
    CatchLookup(OntoServerLookupTry(response, concept_id), concept_id)


-----------------------------------------------------------------------------
(* The inputs the model draws *)

NoInput == [kind |-> "none"]
NotLoaded == [loaded |-> FALSE]
NoFetcher == [kind |-> "none"]
NoCall == [op |-> "none"]
NoResult == [raised |-> FALSE, error |-> "", value |-> NoValue]

\* Backend tags callers may pass to the factory
ServerTypes ==
    {TAG_LOINCSNOMED, TAG_ONTOSERVER,
     <<"L","O","I","N","C","S","N","O","M","E","D">>,
     <<"L","o","i","n","c","S","n","o","m","e","d">>,
     <<"O","n","t","o","S","e","r","v","e","r">>,
     <<"O","N","T","O","S","E","R","V","E","R">>,
     <<"b","o","g","u","s">>,
     <<"p","u","b","l","i","c">>,
     <<"o","n","t","o","s","e","r","v","e","r"," ">>,
     <<"s","n","o","w","s","t","o","r","m">>,
     <<>>}

BaseUrls == {<<"https://onto.example/fhir">>, <<"https://onto.example/fhir", "/">>}

\* Keyword arguments callers may pass to the factory
KwargsSets ==
    {a @@ b @@ c @@ d @@ e :
        a \in Opt("base_url", BaseUrls),
        b \in Opt("use_post", BOOLEAN),
        c \in Opt("cert_path", {<<"/certs/client.p12">>, None}),
        d \in Opt("branch", {<<"MAIN/LOINC/2024-01-01">>, <<>>}),
        e \in Opt("timeout", {<<"30">>})}

\* Environments the process may run in (auth_path, auth_file, auth_pw)
Environments ==
    {EmptyDict,
     [auth_path |-> <<"/certs">>, auth_file |-> <<"\"", "env.p12", "\"">>,
      auth_pw |-> <<"None">>],
     [auth_path |-> <<"/certs", "/">>, auth_file |-> <<"env.p12">>,
      auth_pw |-> <<"secret">>]}

\* The adapters the operations are exercised on
Adapters ==
    {create_adapter(TAG_LOINCSNOMED, EmptyDict, EmptyDict).value}
    \cup {create_adapter(TAG_ONTOSERVER, ("base_url" :> b) @@ ("use_post" :> u) @@ c, EmptyDict).value :
            b \in BaseUrls, u \in BOOLEAN, c \in Opt("cert_path", {<<"/certs/client.p12">>})}

\* Constraint expressions of the adapter calls
Expressions == {<<"<", " ", "1">>, <<"a", "%", "4", "1">>}

Limits == 1..MaxLimit

\* Every text of at most n characters over the set chars
Texts(chars, n) == SeqsUpTo(chars, n)

ExpressionChars == {"a", "<", " ", "%", "4", "1", "U+00E9"}

QueryBodies(self) ==
    IF self.kind = "loincsnomed" THEN SnowstormQueryBodies ELSE FhirQueryBodies

LookupBodies(self) ==
    IF self.kind = "loincsnomed" THEN SnowstormLookupBodies ELSE FhirLookupBodies

\* How a network call may end, given the JSON objects the backend may answer with
Outcomes(bodies) ==
    {NetworkError}
    \cup {Response(s, JsonInvalid) : s \in Statuses \ {STATUS_OK}}
    \cup {Response(STATUS_OK, j) : j \in {JsonInvalid, JsonList}}
    \cup {Response(STATUS_OK, JsonDict(b)) : b \in bodies}

\* The ways the request of a query or of a lookup may end, for each variant
SnowstormQueryOutcomes == Outcomes(SnowstormQueryBodies)
FhirQueryOutcomes == Outcomes(FhirQueryBodies)
SnowstormLookupOutcomes == Outcomes(SnowstormLookupBodies)
FhirLookupOutcomes == Outcomes(FhirLookupBodies)

QueryOutcomes(self) ==
    IF self.kind = "loincsnomed" THEN SnowstormQueryOutcomes ELSE FhirQueryOutcomes

LookupOutcomes(self) ==
    IF self.kind = "loincsnomed" THEN SnowstormLookupOutcomes ELSE FhirLookupOutcomes

-----------------------------------------------------------------------------
(* The adapter's operations *)

Init ==
    /\ adapter \in Adapters
    /\ HAS_PKCS12 \in BOOLEAN
    /\ pc = "idle"
    /\ input = NoInput
    /\ call = NoCall
    /\ request = NoRequest
    /\ reply = NoResponse
    /\ result = NoResult
    /\ tempFiles = 0
    /\ _LOINC_LOCAL_CACHE = NotLoaded
    /\ fetcher = NoFetcher
    /\ tasks = <<>>
    /\ sessions = {}

\* The machines a call of the adapter may find itself on. The public variant
\* never looks for a certificate, so one machine stands for all of them.
MachinesOf(self) ==
    IF self.kind = "ontoserver" THEN Machines
    ELSE {[exists |-> FALSE, direct_decoding |-> "fails", pkcs12_adapter |-> "fails"]}

\* The session a call of the adapter works with: none of its own for the public
\* variant, the one _get_session builds for the authenticated variant
SessionFor(self, machine) ==
    IF self.kind = "ontoserver" THEN _get_session(self, HAS_PKCS12, machine)
    ELSE [session |-> PlainSession, created |-> 0, attempts |-> <<>>]

\* The session object a call of the adapter builds for itself: the authenticated
\* variant calls _get_session, the public variant builds none
OwnSession(self) ==
    IF self.kind = "ontoserver" THEN NewSession(sessions) ELSE NoSession


\* The adapter whose process is followed over one more call than the others'
LongRunAdapter ==
    create_adapter(TAG_ONTOSERVER,
                   ("base_url" :> <<"https://onto.example/fhir", "/">>)
                       @@ ("use_post" :> TRUE) @@ ("cert_path" :> <<"/certs/client.p12">>),
                   EmptyDict).value

\* Temporary files the model lets the process of an adapter leave behind: those of
\* one more session for the long-run adapter
TempFileCap(self) == IF self = LongRunAdapter THEN MaxTempFiles + 2 ELSE MaxTempFiles

\* execute_ecl_query up to the moment the request is on the wire
QueryRequest(self, ecl_expression, limit, session) ==
    IF self.kind = "ontoserver"
    THEN OntoServerQueryRequest(self, ecl_expression, limit, session)
    ELSE SnowstormQueryRequest(self, ecl_expression, limit)

\* get_concept_details up to the moment the request is on the wire
LookupRequest(self, concept_id, session) ==
    IF self.kind = "ontoserver"
    THEN OntoServerLookupRequest(self, concept_id, session)
    ELSE SnowstormLookupRequest(self, concept_id)

\* execute_ecl_query from the end of the network call to the return
QueryResult(self, outcome, execution_time) ==
    IF self.kind = "ontoserver"
    THEN OntoServerQueryResult(outcome, execution_time)
    ELSE SnowstormQueryResult(outcome, execution_time)

\* get_concept_details from the end of the network call to the return
LookupResult(self, outcome, concept_id) ==
    IF self.kind = "ontoserver"
    THEN OntoServerLookupResult(outcome, concept_id)
    ELSE SnowstormLookupResult(outcome, concept_id)

ExecuteEclQuerySend ==
    /\ pc = "idle"
    /\ \E ecl_expression \in Expressions, limit \in Limits, machine \in MachinesOf(adapter) :
         LET s == SessionFor(adapter, machine)
         IN  /\ tempFiles + s.created <= TempFileCap(adapter)
             /\ tempFiles' = tempFiles + s.created
             /\ call' = [op |-> "execute_ecl_query",
                         ecl_expression |-> ecl_expression, limit |-> limit,
                         machine |-> machine, session |-> OwnSession(adapter),
                         attempts |-> s.attempts]
             /\ request' = QueryRequest(adapter, ecl_expression, limit, s.session)
    /\ sessions' = sessions \cup ({OwnSession(adapter)} \ {NoSession})
    /\ pc' = "waiting"
    /\ UNCHANGED <<adapter, HAS_PKCS12, input, reply, result, fetchVars>>


\* a query that, on a failed request or a non-success status, waits for another
\* answer instead of returning
ExecuteEclQueryReturnRetrying ==
    /\ pc = "waiting"
    /\ call.op = "execute_ecl_query"
    /\ \E outcome \in QueryOutcomes(adapter), execution_time \in ElapsedTimes :
         /\ reply' = outcome
         /\ IF outcome.exception \/ outcome.status # STATUS_OK
            THEN /\ pc' = "waiting"
                 /\ UNCHANGED <<result, sessions>>
            ELSE /\ pc' = "returned"
                 /\ result' = QueryResult(adapter, outcome, execution_time)
                 /\ sessions' = sessions \ {call.session}
    /\ UNCHANGED <<adapter, HAS_PKCS12, input, call, request, tempFiles, fetchVars>>

ExecuteEclQueryReturn ==
    /\ pc = "waiting"
    /\ call.op = "execute_ecl_query"
    /\ reply' \in QueryOutcomes(adapter)
    /\ \E execution_time \in ElapsedTimes :
         result' = QueryResult(adapter, reply', execution_time)
    /\ sessions' = sessions \ {call.session}
    /\ pc' = "returned"
    /\ UNCHANGED <<adapter, HAS_PKCS12, input, call, request, tempFiles, fetchVars>>

GetConceptDetailsSend ==
    /\ pc = "idle"
    /\ \E concept_id \in ConceptIds, machine \in MachinesOf(adapter) :
         LET s == SessionFor(adapter, machine)
         IN  /\ tempFiles + s.created <= TempFileCap(adapter)
             /\ tempFiles' = tempFiles + s.created
             /\ call' = [op |-> "get_concept_details", concept_id |-> concept_id,
                         machine |-> machine, session |-> OwnSession(adapter),
                         attempts |-> s.attempts]
             /\ request' = LookupRequest(adapter, concept_id, s.session)
    /\ sessions' = sessions \cup ({OwnSession(adapter)} \ {NoSession})
    /\ pc' = "waiting"
    /\ UNCHANGED <<adapter, HAS_PKCS12, input, reply, result, fetchVars>>


\* a lookup that gives up on a request that has not ended yet and returns the
\* "Unknown" descriptor
GetConceptDetailsReturnOnTimeout ==
    /\ pc = "waiting"
    /\ call.op = "get_concept_details"
    /\ \E outcome \in LookupOutcomes(adapter) \cup {NoResponse} :
         /\ reply' = outcome
         /\ result' = IF outcome = NoResponse
                      THEN Returned(UnknownDescriptor(call.concept_id))
                      ELSE LookupResult(adapter, outcome, call.concept_id)
    /\ sessions' = sessions \ {call.session}
    /\ pc' = "returned"
    /\ UNCHANGED <<adapter, HAS_PKCS12, input, call, request, tempFiles, fetchVars>>

GetConceptDetailsReturn ==
    /\ pc = "waiting"
    /\ call.op = "get_concept_details"
    /\ reply' \in LookupOutcomes(adapter)
    /\ result' = LookupResult(adapter, reply', call.concept_id)
    /\ sessions' = sessions \ {call.session}
    /\ pc' = "returned"
    /\ UNCHANGED <<adapter, HAS_PKCS12, input, call, request, tempFiles, fetchVars>>

\* _get_session forgetting a certificate path it did not find on disk
GetSessionForgettingPath ==
    /\ pc = "idle"
    /\ adapter.kind = "ontoserver"
    /\ \E machine \in Machines :
         LET s == _get_session(adapter, HAS_PKCS12, machine)
         IN  /\ tempFiles + s.created <= TempFileCap(adapter)
             /\ tempFiles' = tempFiles + s.created
             /\ result' = Returned(s.session)
             /\ adapter' = IF machine.exists THEN adapter
                           ELSE [adapter EXCEPT !.cert_path = None]
             /\ call' = [op |-> "_get_session", machine |-> machine,
                         session |-> NewSession(sessions), attempts |-> s.attempts]
    /\ sessions' = sessions \cup {NewSession(sessions)}
    /\ pc' = "returned"
    /\ UNCHANGED <<HAS_PKCS12, input, request, reply, fetchVars>>

\* a caller uses _get_session directly (as the display fetcher does)
GetSession ==
    /\ pc = "idle"
    /\ adapter.kind = "ontoserver"
    /\ \E machine \in Machines :
         LET s == _get_session(adapter, HAS_PKCS12, machine)
         IN  /\ tempFiles + s.created <= TempFileCap(adapter)
             /\ tempFiles' = tempFiles + s.created
             /\ result' = Returned(s.session)
             /\ call' = [op |-> "_get_session", machine |-> machine,
                         session |-> NewSession(sessions), attempts |-> s.attempts]
    /\ sessions' = sessions \cup {NewSession(sessions)}
    /\ pc' = "returned"
    /\ UNCHANGED <<adapter, HAS_PKCS12, input, request, reply, fetchVars>>


\* a call that removes the temporary files of its session when it is over
NextCallCleaningUp ==
    /\ pc = "returned"
    /\ pc' = "idle"
    /\ call' = NoCall
    /\ request' = NoRequest
    /\ reply' = NoResponse
    /\ result' = NoResult
    /\ sessions' = sessions \ {call.session}
    /\ tempFiles' = IF call.attempts = <<"direct">> THEN tempFiles - 2 ELSE tempFiles
    /\ UNCHANGED <<adapter, HAS_PKCS12, input, fetchVars>>

\* the caller takes the result and goes on to its next call
NextCall ==
    /\ pc = "returned"
    /\ pc' = "idle"
    /\ call' = NoCall
    /\ request' = NoRequest
    /\ reply' = NoResponse
    /\ result' = NoResult
    /\ sessions' = sessions \ {call.session}
    /\ UNCHANGED <<adapter, HAS_PKCS12, input, tempFiles, fetchVars>>

Next ==
    \/ ExecuteEclQuerySend
    \/ ExecuteEclQueryReturn
    \/ GetConceptDetailsSend
    \/ GetConceptDetailsReturn
    \/ GetSession
    \/ NextCall

Spec == Init /\ [][Next]_vars

\* One adapter of each variant, the authenticated one with a certificate path
LiveAdapters ==
    {create_adapter(TAG_LOINCSNOMED, EmptyDict, EmptyDict).value,
     create_adapter(TAG_ONTOSERVER,
                    ("base_url" :> <<"https://onto.example/fhir">>)
                        @@ ("cert_path" :> <<"/certs/client.p12">>),
                    EmptyDict).value}

LiveInit ==
    /\ Init
    /\ adapter \in LiveAdapters

\* The same operations on a network where every request ends at some time, with a
\* response or with a failure
SpecLive ==
    /\ LiveInit
    /\ [][Next]_vars
    /\ WF_vars(ExecuteEclQueryReturn)
    /\ WF_vars(GetConceptDetailsReturn)



-----------------------------------------------------------------------------
(* The factory on its own: every tag, keyword bundle and environment, on every    *)
(* machine (the certificate file there or not, decodable or not)              *)

FactoryInit ==
    /\ adapter = NoAdapter
    /\ HAS_PKCS12 \in BOOLEAN
    /\ pc = "start"
    /\ input \in [kind : {"create_adapter"}, server_type : ServerTypes,
                  kwargs : KwargsSets, env : Environments, machine : Machines]
    /\ call = NoCall
    /\ request = NoRequest
    /\ reply = NoResponse
    /\ result = NoResult
    /\ tempFiles = 0
    /\ _LOINC_LOCAL_CACHE = NotLoaded
    /\ fetcher = NoFetcher
    /\ tasks = <<>>
    /\ sessions = {}

CreateAdapter ==
    /\ pc = "start"
    /\ input.kind = "create_adapter"
    /\ LET made == create_adapter(input.server_type, input.kwargs, input.env)
       IN  /\ result' = made
           /\ adapter' = made.value
           /\ pc' = IF made.raised THEN "raised" ELSE "idle"
    /\ UNCHANGED <<HAS_PKCS12, input, call, request, reply, tempFiles, fetchVars, sessions>>

SpecFactory == FactoryInit /\ [][CreateAdapter]_vars


-----------------------------------------------------------------------------
(* Request construction on its own: every expression of up to MaxLen characters *)

EncodeInit ==
    /\ adapter \in {a \in Adapters : a.kind = "ontoserver"}
    /\ HAS_PKCS12 \in BOOLEAN
    /\ pc = "idle"
    /\ input \in [kind : {"execute_ecl_query"},
                  ecl_expression : Texts(ExpressionChars, MaxLen), limit : Limits]
    /\ call = NoCall
    /\ request = NoRequest
    /\ reply = NoResponse
    /\ result = NoResult
    /\ tempFiles = 0
    /\ _LOINC_LOCAL_CACHE = NotLoaded
    /\ fetcher = NoFetcher
    /\ tasks = <<>>
    /\ sessions = {}

\* OntoServerAdapter.execute_ecl_query on the pending arguments, up to the request
BuildQueryRequest ==
    /\ pc = "idle"
    /\ input.kind = "execute_ecl_query"
    /\ call' = [op |-> "execute_ecl_query",
                ecl_expression |-> input.ecl_expression, limit |-> input.limit]
    /\ request' = OntoServerQueryRequest(adapter, input.ecl_expression, input.limit,
                                         PlainSession)
    /\ pc' = "waiting"
    /\ UNCHANGED <<adapter, HAS_PKCS12, input, reply, result, tempFiles, fetchVars, sessions>>

SpecEncode == EncodeInit /\ [][BuildQueryRequest]_vars

-----------------------------------------------------------------------------
(* The LOINC display fetcher (scripts/loinc_display_fetcher.py) *)

MaxCodes == 2        \* LOINC codes in one fetch_displays call
MaxConcurrent == 2   \* largest max_concurrent a caller passes

DEFAULT_FETCH_BASE_URL == <<"https://ontoserver.mii-termserv.de/fhir">>
LOINC_SYSTEM == <<"http://loinc.org">>

LoincCodes == {<<"1920-8">>, <<"2345-7">>}

Whitespace == {" ", "\t", "\n"}

\* The file LOINC_CSV_PATH names, as the process finds it
NoCsv == [configured |-> FALSE, exists |-> FALSE, readable |-> FALSE, rows |-> <<>>]

CsvRows ==
    << [LOINC_NUM |-> <<" ", "1920-8">>, LONG_COMMON_NAME |-> <<"Aspartate aminotransferase", " ">>],
       [LOINC_NUM |-> <<"2345-7">>, LONG_COMMON_NAME |-> <<" ">>] >>

CsvFiles ==
    {NoCsv,
     [configured |-> TRUE, exists |-> FALSE, readable |-> FALSE, rows |-> <<>>],
     [configured |-> TRUE, exists |-> TRUE, readable |-> FALSE, rows |-> CsvRows],
     [configured |-> TRUE, exists |-> TRUE, readable |-> TRUE, rows |-> CsvRows]}

Loaded(mapping) == [loaded |-> TRUE, mapping |-> mapping]

RECURSIVE ReadRows(_, _)
\* for row in reader: keep the rows that name a code and a long common name
ReadRows(rows, loinc_dict) ==
    IF rows = <<>> THEN loinc_dict
    ELSE LET loinc_num == Strip(Get(rows[1], "LOINC_NUM", <<>>), Whitespace)
             long_common_name == Strip(Get(rows[1], "LONG_COMMON_NAME", <<>>), Whitespace)
         IN  IF loinc_num # <<>> /\ long_common_name # <<>>
             THEN ReadRows(Tail(rows), DictSet(loinc_dict, loinc_num, long_common_name))
             ELSE ReadRows(Tail(rows), loinc_dict)


\* a load that left the empty mapping tried again by the next call
_load_loinc_csv_retrying(cache, csv) ==
    IF cache.loaded /\ cache.mapping # EmptyDict THEN cache.mapping
    ELSE IF ~csv.configured \/ ~csv.exists THEN EmptyDict
    ELSE IF ~csv.readable THEN EmptyDict
    ELSE ReadRows(csv.rows, EmptyDict)

\* _load_loinc_csv: the mapping it returns, which is also what it leaves in the
\* module-level cache
_load_loinc_csv(cache, csv) ==
    IF cache.loaded THEN cache.mapping
    ELSE IF ~csv.configured \/ ~csv.exists THEN EmptyDict
    ELSE IF ~csv.readable THEN EmptyDict
    ELSE ReadRows(csv.rows, EmptyDict)

\* f"LOINC {loinc_code}"
LoincFallback(loinc_code) == <<"LOINC ">> \o loinc_code

\* The request of the API fallback (the same in get_display and _fetch_single_sync)
DisplayLookupRequest(self, loinc_code, session) ==
    [method |-> "GET",
     url |-> self.base_url \o <<"/CodeSystem/$lookup">>,
     params |-> [system |-> LOINC_SYSTEM, code |-> loinc_code],
     json |-> EmptyDict,
     session |-> session]

\* JSON objects a $lookup on the LOINC code system is answered with
DisplayBodies ==
    {EmptyDict,
     [parameter |-> << [name |-> <<"name">>, valueString |-> <<"LOINC">>],
                       [name |-> <<"display">>, valueString |-> <<"Glucose [Mass/volume]">>] >>],
     [parameter |-> << [name |-> <<"display">>, valueString |-> <<"Aspartate aminotransferase">>] >>],
     [parameter |-> << [name |-> <<"display">>] >>]}

\* How the request of the API fallback may end
DisplayOutcomes ==
    {NetworkError, Response(404, JsonInvalid), Response(STATUS_OK, JsonList)}
    \cup {Response(STATUS_OK, JsonDict(b)) : b \in DisplayBodies}

RECURSIVE GetDisplayScan(_, _)
\* get_display, lines 159-176: the first 'display' parameter decides
GetDisplayScan(params, loinc_code) ==
    IF params = <<>> THEN LoincFallback(loinc_code)
    ELSE IF Get(params[1], "name", None) = <<"display">>
    THEN Get(params[1], "valueString", LoincFallback(loinc_code))
    ELSE GetDisplayScan(Tail(params), loinc_code)

\* get_display, lines 153-183: the try body after the request
GetDisplayTry(response, loinc_code) ==
    IF response.exception THEN Raised("RequestException")
    ELSE IF response.status = STATUS_OK
    THEN IF response.json.type = "invalid" THEN Raised("JSONDecodeError")
         ELSE IF response.json.type # "dict" THEN Raised("AttributeError")
         ELSE Returned(GetDisplayScan(Get(response.json.value, "parameter", <<>>), loinc_code))
    ELSE Returned(LoincFallback(loinc_code))

\* get_display, lines 185-191: except Exception: the fallback
GetDisplayApi(response, loinc_code) ==
    LET attempt == GetDisplayTry(response, loinc_code)
    IN  IF attempt.raised THEN LoincFallback(loinc_code) ELSE attempt.value

RECURSIVE FetchSingleScanNoDefault(_, _)
\* a 'display' parameter without a valueString giving None, not the fallback
FetchSingleScanNoDefault(params, loinc_code) ==
    IF params = <<>> THEN LoincFallback(loinc_code)
    ELSE IF Get(params[1], "name", None) = <<"display">>
    THEN Get(params[1], "valueString", None)
    ELSE FetchSingleScanNoDefault(Tail(params), loinc_code)

RECURSIVE FetchSingleScan(_, _)
\* _fetch_single_sync, lines 282-292: the first 'display' parameter decides
FetchSingleScan(params, loinc_code) ==
    IF params = <<>> THEN LoincFallback(loinc_code)
    ELSE IF Get(params[1], "name", None) = <<"display">>
    THEN Get(params[1], "valueString", LoincFallback(loinc_code))
    ELSE FetchSingleScan(Tail(params), loinc_code)

\* _fetch_single_sync, lines 276-296: the try body after the request
FetchSingleTry(response, loinc_code) ==
    IF response.exception THEN Raised("RequestException")
    ELSE IF response.status = STATUS_OK
    THEN IF response.json.type = "invalid" THEN Raised("JSONDecodeError")
         ELSE IF response.json.type # "dict" THEN Raised("AttributeError")
         ELSE Returned(<<loinc_code,
                         FetchSingleScan(Get(response.json.value, "parameter", <<>>), loinc_code)>>)
    ELSE Returned(<<loinc_code, LoincFallback(loinc_code)>>)

\* _fetch_single_sync, lines 298-301: except Exception: the fallback
FetchSingleApi(response, loinc_code) ==
    LET attempt == FetchSingleTry(response, loinc_code)
    IN  IF attempt.raised THEN <<loinc_code, LoincFallback(loinc_code)>> ELSE attempt.value

\* The environment the fetcher's process runs in (.env names a certificate)
FetchEnvironment ==
    [auth_path |-> <<"/certs">>, auth_file |-> <<"\"", "env.p12", "\"">>,
     auth_pw |-> <<"None">>]

\* the codes of a run that the local mapping does not know: the ones the server is asked about
CodesAsked(loinc_codes, csv) ==
    {loinc_codes[i] : i \in DOMAIN loinc_codes} \ DOMAIN _load_loinc_csv(NotLoaded, csv)

\* A run of the fetcher: the codes, the CSV file, the size of the worker pool, and
\* the answer the server gives for each code it is asked about (the same every time)
FetchInputs ==
    UNION {[kind : {"fetch_displays"}, loinc_codes : {cs}, csv : {f},
            max_concurrent : 1..MaxConcurrent,
            backend : [CodesAsked(cs, f) -> DisplayOutcomes]] :
           cs \in SeqsUpTo(LoincCodes, MaxCodes), f \in CsvFiles}

FetchInit ==
    /\ adapter = NoAdapter
    /\ HAS_PKCS12 \in BOOLEAN
    /\ pc = "start"
    /\ input \in FetchInputs
    /\ call = NoCall
    /\ request = NoRequest
    /\ reply = NoResponse
    /\ result = [sync_displays |-> NoResult, async_displays |-> NoResult]
    /\ tempFiles = 0
    /\ _LOINC_LOCAL_CACHE = NotLoaded
    /\ fetcher = NoFetcher
    /\ tasks = <<>>
    /\ sessions = {}

\* LOINCDisplayFetcher.__init__(verbose=False)
NewFetcher ==
    /\ pc = "start"
    /\ input.kind = "fetch_displays"
    /\ LET local_loinc == _load_loinc_csv(_LOINC_LOCAL_CACHE, input.csv)
           base_url == Or(None, DEFAULT_FETCH_BASE_URL)
       IN  /\ _LOINC_LOCAL_CACHE' = Loaded(local_loinc)
           /\ fetcher' = [kind |-> "LOINCDisplayFetcher", base_url |-> base_url,
                          cache |-> EmptyDict, local_loinc |-> local_loinc]
           /\ adapter' = create_adapter(TAG_ONTOSERVER, "base_url" :> base_url,
                                        FetchEnvironment).value
    /\ pc' = "ready"
    /\ UNCHANGED <<HAS_PKCS12, input, call, request, reply, result, tempFiles, tasks, sessions>>

\* fetch_displays up to its loop
FetchDisplays ==
    /\ pc = "ready"
    /\ call' = [op |-> "fetch_displays", results |-> EmptyDict, i |-> 1,
                session |-> NoSession]
    /\ pc' = "sync"
    /\ UNCHANGED <<adapter, HAS_PKCS12, input, request, reply, result, tempFiles, fetchVars,
                   sessions>>


\* get_display without the look into self.cache
GetDisplayUncached ==
    /\ pc = "sync"
    /\ call.i <= Len(input.loinc_codes)
    /\ LET loinc_code == input.loinc_codes[call.i]
       IN  IF loinc_code \in DOMAIN fetcher.local_loinc
           THEN LET display == fetcher.local_loinc[loinc_code]
                IN  /\ fetcher' = [fetcher EXCEPT !.cache = DictSet(@, loinc_code, display)]
                    /\ call' = [call EXCEPT !.results = DictSet(@, loinc_code, display),
                                            !.i = @ + 1]
                    /\ UNCHANGED <<request, reply, tempFiles, pc, sessions>>
           ELSE \E machine \in Machines :
                    LET s == _get_session(adapter, HAS_PKCS12, machine)
                    IN  /\ tempFiles + s.created <= MaxTempFiles
                        /\ tempFiles' = tempFiles + s.created
                        /\ request' = DisplayLookupRequest(adapter, loinc_code, s.session)
                        /\ reply' = NoResponse
                        /\ sessions' = sessions \cup {NewSession(sessions)}
                        /\ call' = [call EXCEPT !.session = NewSession(sessions)]
                        /\ pc' = "sync_waiting"
                        /\ UNCHANGED fetcher
    /\ UNCHANGED <<adapter, HAS_PKCS12, input, result, _LOINC_LOCAL_CACHE, tasks>>

\* one pass of the loop of fetch_displays: get_display, up to its return or up to
\* the moment its request is on the wire
GetDisplay ==
    /\ pc = "sync"
    /\ call.i <= Len(input.loinc_codes)
    /\ LET loinc_code == input.loinc_codes[call.i]
       IN  IF loinc_code \in DOMAIN fetcher.cache
           THEN /\ call' = [call EXCEPT !.results = DictSet(@, loinc_code, fetcher.cache[loinc_code]),
                                        !.i = @ + 1]
                /\ UNCHANGED <<fetcher, request, reply, tempFiles, pc, sessions>>
           ELSE IF loinc_code \in DOMAIN fetcher.local_loinc
           THEN LET display == fetcher.local_loinc[loinc_code]
                IN  /\ fetcher' = [fetcher EXCEPT !.cache = DictSet(@, loinc_code, display)]
                    /\ call' = [call EXCEPT !.results = DictSet(@, loinc_code, display),
                                            !.i = @ + 1]
                    /\ UNCHANGED <<request, reply, tempFiles, pc, sessions>>
           ELSE \E machine \in Machines :
                    LET s == _get_session(adapter, HAS_PKCS12, machine)
                    IN  /\ tempFiles + s.created <= MaxTempFiles
                        /\ tempFiles' = tempFiles + s.created
                        /\ request' = DisplayLookupRequest(adapter, loinc_code, s.session)
                        /\ reply' = NoResponse
                        /\ sessions' = sessions \cup {NewSession(sessions)}
                        /\ call' = [call EXCEPT !.session = NewSession(sessions)]
                        /\ pc' = "sync_waiting"
                        /\ UNCHANGED fetcher
    /\ UNCHANGED <<adapter, HAS_PKCS12, input, result, _LOINC_LOCAL_CACHE, tasks>>

\* get_display from the end of its request to its return, and the assignment in
\* the loop of fetch_displays
GetDisplayReturn ==
    /\ pc = "sync_waiting"
    /\ LET loinc_code == input.loinc_codes[call.i]
           response == input.backend[loinc_code]
           display == GetDisplayApi(response, loinc_code)
       IN  /\ reply' = response
           /\ fetcher' = [fetcher EXCEPT !.cache = DictSet(@, loinc_code, display)]
           /\ call' = [call EXCEPT !.results = DictSet(@, loinc_code, display), !.i = @ + 1,
                                   !.session = NoSession]
    /\ sessions' = sessions \ {call.session}
    /\ pc' = "sync"
    /\ UNCHANGED <<adapter, HAS_PKCS12, input, request, result, tempFiles,
                   _LOINC_LOCAL_CACHE, tasks>>

\* fetch_displays returns its results
FetchDisplaysReturn ==
    /\ pc = "sync"
    /\ call.i > Len(input.loinc_codes)
    /\ result' = [result EXCEPT !.sync_displays = Returned(call.results)]
    /\ call' = NoCall
    /\ request' = NoRequest
    /\ reply' = NoResponse
    /\ pc' = "sync_done"
    /\ UNCHANGED <<adapter, HAS_PKCS12, input, tempFiles, fetchVars, sessions>>

QueuedTask ==
    [state |-> "queued", session |-> NoSession, request |-> NoRequest, reply |-> NoResponse,
     result |-> <<>>]

\* fetch_displays_async up to the submission of one lookup per code to the pool
FetchDisplaysAsync ==
    /\ pc \in {"start", "sync_done"}
    /\ input.kind = "fetch_displays"
    /\ LET local_loinc == _load_loinc_csv(_LOINC_LOCAL_CACHE, input.csv)
           base_url == Or(None, DEFAULT_FETCH_BASE_URL)
       IN  /\ _LOINC_LOCAL_CACHE' = Loaded(local_loinc)
           /\ adapter' = create_adapter(TAG_ONTOSERVER, "base_url" :> base_url,
                                        FetchEnvironment).value
           /\ call' = [op |-> "fetch_displays_async", local_loinc |-> local_loinc,
                       max_concurrent |-> input.max_concurrent]
    /\ tasks' = [i \in DOMAIN input.loinc_codes |-> QueuedTask]
    /\ pc' = "async"
    /\ UNCHANGED <<HAS_PKCS12, input, request, reply, result, tempFiles, fetcher, sessions>>

\* the lookups a pool thread is busy with
Running == {i \in DOMAIN tasks : tasks[i].state = "waiting"}

\* _fetch_single_sync going to the server without a look at the local mapping
WorkerStartApiOnly(i) ==
    /\ pc = "async"
    /\ tasks[i].state = "queued"
    /\ \A j \in 1..(i - 1) : tasks[j].state # "queued"
    /\ Cardinality(Running) < call.max_concurrent
    /\ \E machine \in Machines :
          LET s == _get_session(adapter, HAS_PKCS12, machine)
          IN  /\ tempFiles + s.created <= MaxTempFiles
              /\ tempFiles' = tempFiles + s.created
              /\ sessions' = sessions \cup {NewSession(sessions)}
              /\ tasks' = [tasks EXCEPT ![i] =
                             [@ EXCEPT !.state = "waiting",
                                       !.session = NewSession(sessions),
                                       !.request = DisplayLookupRequest(
                                                      adapter, input.loinc_codes[i], s.session)]]
    /\ UNCHANGED <<adapter, HAS_PKCS12, pc, input, call, request, reply, result,
                   _LOINC_LOCAL_CACHE, fetcher>>


\* _fetch_single_sync taking a session kept from an earlier lookup when there is one,
\* and building one only when there is none
WorkerStartSharedSession(i) ==
    /\ pc = "async"
    /\ tasks[i].state = "queued"
    /\ \A j \in 1..(i - 1) : tasks[j].state # "queued"
    /\ Cardinality(Running) < call.max_concurrent
    /\ LET loinc_code == input.loinc_codes[i]
           kept == IF sessions = {} THEN NewSession(sessions) ELSE CHOOSE n \in sessions : TRUE
       IN  IF loinc_code \in DOMAIN call.local_loinc
           THEN /\ tasks' = [tasks EXCEPT ![i] =
                               [@ EXCEPT !.state = "done",
                                         !.result = <<loinc_code, call.local_loinc[loinc_code]>>]]
                /\ UNCHANGED <<tempFiles, sessions>>
           ELSE \E machine \in Machines :
                    LET s == _get_session(adapter, HAS_PKCS12, machine)
                    IN  /\ tempFiles + s.created <= MaxTempFiles
                        /\ tempFiles' = tempFiles + s.created
                        /\ sessions' = sessions \cup {kept}
                        /\ tasks' = [tasks EXCEPT ![i] =
                                       [@ EXCEPT !.state = "waiting",
                                                 !.session = kept,
                                                 !.request = DisplayLookupRequest(
                                                                adapter, loinc_code, s.session)]]
    /\ UNCHANGED <<adapter, HAS_PKCS12, pc, input, call, request, reply, result,
                   _LOINC_LOCAL_CACHE, fetcher>>

\* A pool thread takes the next lookup off the queue and runs _fetch_single_sync up
\* to its return (local name) or up to the moment its request is on the wire
WorkerStart(i) ==
    /\ pc = "async"
    /\ tasks[i].state = "queued"
    /\ \A j \in 1..(i - 1) : tasks[j].state # "queued"
    /\ Cardinality(Running) < call.max_concurrent
    /\ LET loinc_code == input.loinc_codes[i]
       IN  IF loinc_code \in DOMAIN call.local_loinc
           THEN /\ tasks' = [tasks EXCEPT ![i] =
                               [@ EXCEPT !.state = "done",
                                         !.result = <<loinc_code, call.local_loinc[loinc_code]>>]]
                /\ UNCHANGED <<tempFiles, sessions>>
           ELSE \E machine \in Machines :
                    LET s == _get_session(adapter, HAS_PKCS12, machine)
                    IN  /\ tempFiles + s.created <= MaxTempFiles
                        /\ tempFiles' = tempFiles + s.created
                        /\ sessions' = sessions \cup {NewSession(sessions)}
                        /\ tasks' = [tasks EXCEPT ![i] =
                                       [@ EXCEPT !.state = "waiting",
                                                 !.session = NewSession(sessions),
                                                 !.request = DisplayLookupRequest(
                                                                adapter, loinc_code, s.session)]]
    /\ UNCHANGED <<adapter, HAS_PKCS12, pc, input, call, request, reply, result,
                   _LOINC_LOCAL_CACHE, fetcher>>

\* The response of a lookup arrives and its _fetch_single_sync returns
WorkerReceive(i) ==
    /\ pc = "async"
    /\ tasks[i].state = "waiting"
    /\ LET loinc_code == input.loinc_codes[i]
           response == input.backend[loinc_code]
       IN  tasks' = [tasks EXCEPT ![i] =
                       [@ EXCEPT !.state = "done",
                                 !.session = NoSession,
                                 !.reply = response,
                                 !.result = FetchSingleApi(response, loinc_code)]]
    /\ sessions' = sessions \ {tasks[i].session}
    /\ UNCHANGED <<adapter, HAS_PKCS12, pc, input, call, request, reply, result, tempFiles,
                   _LOINC_LOCAL_CACHE, fetcher>>

RECURSIVE DictOfPairsShared(_, _)
\* every worker writing its display to one shared slot: each key ends with the
\* display that was written last
DictOfPairsShared(pairs, d) ==
    IF pairs = <<>> THEN d
    ELSE DictOfPairsShared(Tail(pairs),
             [k \in (DOMAIN d) \cup {pairs[1][1]} |-> pairs[1][2]])

RECURSIVE DictOfPairs(_, _)
\* dict(results): a later pair replaces an earlier one with the same key
DictOfPairs(pairs, d) ==
    IF pairs = <<>> THEN d
    ELSE DictOfPairs(Tail(pairs), DictSet(d, pairs[1][1], pairs[1][2]))


\* fetch_displays_async returning as soon as one lookup has completed, with the
\* results there are
GatherFirstCompleted ==
    /\ pc = "async"
    /\ \E i \in DOMAIN tasks : tasks[i].state = "done"
    /\ LET completed == SelectSeq(tasks, LAMBDA t : t.state = "done")
           results == [i \in DOMAIN completed |-> completed[i].result]
       IN  result' = [result EXCEPT !.async_displays = Returned(DictOfPairs(results, EmptyDict))]
    /\ pc' = "done"
    /\ UNCHANGED <<adapter, HAS_PKCS12, input, call, request, reply, tempFiles, fetchVars,
                   sessions>>

\* asyncio.gather has every result, in the order of the codes; the pool shuts down
\* and fetch_displays_async returns dict(results)
Gather ==
    /\ pc = "async"
    /\ \A i \in DOMAIN tasks : tasks[i].state = "done"
    /\ LET results == [i \in DOMAIN tasks |-> tasks[i].result]
       IN  result' = [result EXCEPT !.async_displays = Returned(DictOfPairs(results, EmptyDict))]
    /\ pc' = "done"
    /\ UNCHANGED <<adapter, HAS_PKCS12, input, call, request, reply, tempFiles, fetchVars,
                   sessions>>

FetchNext ==
    \/ NewFetcher
    \/ FetchDisplays
    \/ GetDisplay
    \/ GetDisplayReturn
    \/ FetchDisplaysReturn
    \/ FetchDisplaysAsync
    \/ \E i \in DOMAIN tasks : WorkerStart(i)
    \/ \E i \in DOMAIN tasks : WorkerReceive(i)
    \/ Gather

SpecFetch == FetchInit /\ [][FetchNext]_vars


-----------------------------------------------------------------------------
(* The module-level cache of the LOINC CSV, over the life of a process *)

MaxLoads == 3   \* calls of _load_loinc_csv in one process

\* Rows the file may hold at a later time
CsvRowsLater ==
    << [LOINC_NUM |-> <<"2345-7">>, LONG_COMMON_NAME |-> <<"Glucose [Mass/volume]">>] >>

\* What the process may find at LOINC_CSV_PATH at one time or another
LoadCsvFiles ==
    CsvFiles
    \cup {[configured |-> TRUE, exists |-> TRUE, readable |-> TRUE, rows |-> rows] :
            rows \in {<<>>, CsvRowsLater}}

\* _load_loinc_csv gets as far as open(LOINC_CSV_PATH, ...)
OpensCsv(cache, csv) == ~cache.loaded /\ csv.configured /\ csv.exists

LoadInit ==
    /\ adapter = NoAdapter
    /\ HAS_PKCS12 \in BOOLEAN
    /\ pc = "idle"
    /\ input \in [kind : {"_load_loinc_csv"}, csv : LoadCsvFiles, loads : {0}]
    /\ call = NoCall
    /\ request = NoRequest
    /\ reply = NoResponse
    /\ result = NoResult
    /\ tempFiles = 0
    /\ _LOINC_LOCAL_CACHE = NotLoaded
    /\ fetcher = NoFetcher
    /\ tasks = <<>>
    /\ sessions = {}

\* one call of _load_loinc_csv, by a fetcher's constructor or by fetch_displays_async
LoadLoincCsv ==
    /\ pc = "idle"
    /\ input.kind = "_load_loinc_csv"
    /\ input.loads < MaxLoads
    /\ LET mapping == _load_loinc_csv(_LOINC_LOCAL_CACHE, input.csv)
       IN  /\ _LOINC_LOCAL_CACHE' = Loaded(mapping)
           /\ result' = Returned(mapping)
    /\ call' = [op |-> "_load_loinc_csv", opened |-> OpensCsv(_LOINC_LOCAL_CACHE, input.csv),
                session |-> NoSession]
    /\ input' = [input EXCEPT !.loads = @ + 1]
    /\ pc' = "returned"
    /\ UNCHANGED <<adapter, HAS_PKCS12, request, reply, tempFiles, fetcher, tasks, sessions>>

\* between two calls the file at LOINC_CSV_PATH appears, disappears or changes; the
\* path itself was read from the environment when the module was imported
CsvFileChanges ==
    /\ pc = "idle"
    /\ input.kind = "_load_loinc_csv"
    /\ \E csv \in LoadCsvFiles :
         /\ csv.configured = input.csv.configured
         /\ csv # input.csv
         /\ input' = [input EXCEPT !.csv = csv]
    /\ UNCHANGED <<adapter, HAS_PKCS12, pc, call, request, reply, result, tempFiles,
                   fetchVars, sessions>>

LoadNext ==
    \/ LoadLoincCsv
    \/ CsvFileChanges
    \/ NextCall

SpecLoad == LoadInit /\ [][LoadNext]_vars

-----------------------------------------------------------------------------
(* Properties *)

QueryReturned == pc = "returned" /\ call.op = "execute_ecl_query"
LookupReturned == pc = "returned" /\ call.op = "get_concept_details"

\* the request failed, or the server answered with a status outside 2xx
CallFailed == reply.exception \/ reply.status \notin 200..299

\* the server answered 200 with a JSON object
AnsweredObject == ~reply.exception /\ reply.status = STATUS_OK /\ reply.json.type = "dict"

IsEmptyQueryResult(v) ==
    /\ DOMAIN v = {"items", "total", "execution_time"}
    /\ v.items = <<>>
    /\ v.total = 0

\* C1: execute_ecl_query of either variant never raises to its caller; when the
\* network call fails with an exception or the response status is not a success
\* status, it returns items = [], total = 0 and an execution_time.
C1_QueryFailsSoft ==
    QueryReturned =>
        /\ ~result.raised
        /\ CallFailed => IsEmptyQueryResult(result.value)

C1_Witness ==
    /\ QueryReturned
    /\ reply.exception
    /\ ~result.raised
    /\ result.value.items = <<>>

\* C2: get_concept_details of either variant never raises; when the request fails
\* with an exception or the server answers with a non-success status (404), it
\* returns the input id with fsn = pt = "Unknown".
C2_LookupFailsSoft ==
    LookupReturned =>
        /\ ~result.raised
        /\ CallFailed => result.value = UnknownDescriptor(call.concept_id)

C2_Witness ==
    /\ LookupReturned
    /\ ~reply.exception
    /\ reply.status = 404
    /\ ~result.raised
    /\ result.value.fsn = UNKNOWN

\* the JSON object of a query answer lacks the list of concepts
QueryBodyLacksItems ==
    IF adapter.kind = "loincsnomed"
    THEN "items" \notin DOMAIN reply.json.value
    ELSE \/ "expansion" \notin DOMAIN reply.json.value
         \/ "contains" \notin DOMAIN reply.json.value.expansion

\* the JSON object of a lookup answer lacks every key a name is read from
LookupBodyLacksNames ==
    IF adapter.kind = "loincsnomed"
    THEN DOMAIN reply.json.value \cap {"descriptions", "fsn"} = {}
    ELSE "parameter" \notin DOMAIN reply.json.value

\* C3: when the backend answers 200 with a JSON object that lacks the expected
\* keys, neither variant raises; the query result has items = [] with a total and
\* an execution_time, and the descriptor has fsn = "Unknown".
C3_MissingKeysDefault ==
    /\ (QueryReturned /\ AnsweredObject /\ QueryBodyLacksItems) =>
          /\ ~result.raised
          /\ {"items", "total", "execution_time"} \subseteq DOMAIN result.value
          /\ result.value.items = <<>>
    /\ (LookupReturned /\ AnsweredObject /\ LookupBodyLacksNames) =>
          /\ ~result.raised
          /\ result.value.fsn = UNKNOWN


\* create_adapter has run on the pending arguments
FactoryDone == input.kind = "create_adapter" /\ pc \in {"idle", "raised"}

\* the keyword arguments are ones the constructor of the named variant accepts
BundleFits(kwargs, tag) ==
    /\ tag = TAG_LOINCSNOMED => DOMAIN kwargs \subseteq SnowstormKeys
    /\ tag = TAG_ONTOSERVER =>
          DOMAIN kwargs \subseteq OntoServerKeys /\ "base_url" \in DOMAIN kwargs

\* what the claim says create_adapter does for a call whose tag reads as `tag`
FactoryContract(tag) ==
    /\ tag = TAG_LOINCSNOMED =>
          /\ ~result.raised
          /\ adapter.kind = "loincsnomed"
          /\ DOMAIN adapter = {"kind", "api_base", "branch"}
    /\ tag = TAG_ONTOSERVER =>
          /\ ~result.raised
          /\ adapter.kind = "ontoserver"
          /\ DOMAIN adapter = {"kind"} \cup OntoServerKeys
    /\ tag \in {TAG_LOINCSNOMED, TAG_ONTOSERVER} =>
          (ENABLED ExecuteEclQuerySend /\ ENABLED GetConceptDetailsSend)
    /\ tag \notin {TAG_LOINCSNOMED, TAG_ONTOSERVER} =>
          /\ result.raised
          /\ result.error = "ValueError"
          /\ adapter = NoAdapter

\* C4 as stated: the public tag gives the public variant, the authenticated tag
\* the authenticated variant, each with both operations, and every other tag
\* raises a configuration error and constructs no adapter.
C4_ExactTagFactory ==
    (FactoryDone /\ BundleFits(input.kwargs, Lower(input.server_type))) =>
        FactoryContract(input.server_type)

\* C4 as amended: the tag is compared case-insensitively. Every tag whose
\* lower-cased form is 'loincsnomed' gives the public variant, every tag whose
\* lower-cased form is 'ontoserver' the authenticated variant, each with both
\* operations; every other tag raises ValueError and constructs no adapter.
C4_CaseInsensitiveFactory ==
    (FactoryDone /\ BundleFits(input.kwargs, Lower(input.server_type))) =>
        FactoryContract(Lower(input.server_type))

C4_Witness ==
    /\ FactoryDone
    /\ input.server_type = <<"O","n","t","o","S","e","r","v","e","r">>
    /\ adapter.kind = "ontoserver"
    /\ adapter.base_url = <<"https://onto.example/fhir">>


Range(f) == {f[i] : i \in DOMAIN f}

\* the concepts a 200 answer carries, in the server's order
AnswerConcepts ==
    IF ~AnsweredObject THEN <<>>
    ELSE IF adapter.kind = "loincsnomed"
    THEN Get(reply.json.value, "items", <<>>)
    ELSE Get(Get(reply.json.value, "expansion", EmptyDict), "contains", <<>>)

\* their identifiers
AnswerIds ==
    IF adapter.kind = "loincsnomed"
    THEN [i \in DOMAIN AnswerConcepts |-> AnswerConcepts[i].conceptId]
    ELSE [i \in DOMAIN AnswerConcepts |-> Get(AnswerConcepts[i], "code", None)]

\* the identifiers of the items returned
ResultIds ==
    LET items == Get(result.value, "items", <<>>)
    IN  [i \in DOMAIN items |-> items[i].conceptId]

\* the 200 answer carries a list of concepts and a total
AnswerHasConceptsAndTotal ==
    /\ AnsweredObject
    /\ IF adapter.kind = "loincsnomed"
       THEN {"items", "total"} \subseteq DOMAIN reply.json.value
       ELSE /\ "expansion" \in DOMAIN reply.json.value
            /\ {"contains", "total"} \subseteq DOMAIN reply.json.value.expansion

AnswerTotal ==
    IF adapter.kind = "loincsnomed" THEN reply.json.value.total
    ELSE reply.json.value.expansion.total

\* C5: when the backend answers 200 with N concepts and total = T, execute_ecl_query
\* of either variant returns exactly those N concepts in items, in the server's
\* order and with the server's identifiers, and total = T.
C5_ItemsAndTotalAsAnswered ==
    (QueryReturned /\ AnswerHasConceptsAndTotal) =>
        /\ ~result.raised
        /\ {"items", "total"} \subseteq DOMAIN result.value
        /\ Len(result.value.items) = Len(AnswerConcepts)
        /\ ResultIds = AnswerIds
        /\ adapter.kind = "loincsnomed" => result.value.items = AnswerConcepts
        /\ result.value.total = AnswerTotal

C5_Witness ==
    /\ QueryReturned
    /\ AnswerHasConceptsAndTotal
    /\ adapter.kind = "ontoserver"
    /\ ResultIds = <<(<<"111">>), (<<"222">>)>>
    /\ result.value.total = 3

\* the names a $lookup answer gives under a use code: the value parts of the
\* designation parameters that carry a use part with that code
FhirNames(body, use_code) ==
    LET params == Range(Get(body, "parameter", <<>>))
        Uses(param) ==
            {Get(Get(part, "valueCoding", EmptyDict), "code", <<>>) :
                part \in {q \in Range(Get(param, "part", <<>>)) :
                             Get(q, "name", None) = <<"use">>}}
        Values(param) ==
            {part.valueString :
                part \in {q \in Range(Get(param, "part", <<>>)) :
                             Get(q, "name", None) = <<"value">> /\ "valueString" \in DOMAIN q}}
    IN  UNION {Values(param) :
                  param \in {q \in params : Get(q, "name", None) = <<"designation">>
                                            /\ use_code \in Uses(q)}}

IsFsnDescription(desc) == Get(Get(desc, "type", EmptyDict), "conceptId", None) = FSN_TYPE

TermOf(field) == IF field # JsonNull /\ "term" \in DOMAIN field THEN {field.term} ELSE {}

\* the Fully Specified Names a Snowstorm concept answer gives
SnowstormFsnNames(body) ==
    UNION {TermOf(desc) : desc \in {d \in Range(Get(body, "descriptions", <<>>)) :
                                       IsFsnDescription(d)}}
    \cup TermOf(Get(body, "fsn", EmptyDict))

\* the Preferred Terms a Snowstorm concept answer gives
SnowstormPtNames(body) == TermOf(Get(body, "pt", EmptyDict))

\* every description typed as Fully Specified Name carries a term
SnowstormFsnTermsPresent(body) ==
    \A desc \in Range(Get(body, "descriptions", <<>>)) :
        IsFsnDescription(desc) => "term" \in DOMAIN desc

\* the answer names f as its one Fully Specified Name
ResolvesFsn(body, f) ==
    IF adapter.kind = "loincsnomed"
    THEN SnowstormFsnNames(body) = {f} /\ SnowstormFsnTermsPresent(body)
    ELSE FhirNames(body, FSN_TYPE) = {f}

\* the answer names p as its one Preferred Term
ResolvesPt(body, p) ==
    IF adapter.kind = "loincsnomed"
    THEN SnowstormPtNames(body) = {p}
    ELSE FhirNames(body, PT_TYPE) = {p}

\* the answer resolves the concept to the Fully Specified Name f and the Preferred
\* Term p: it names f as its one Fully Specified Name and p as its one Preferred Term
Resolves(body, f, p) == ResolvesFsn(body, f) /\ ResolvesPt(body, p)

NamesInAnswers ==
    {<<"Hb (obs)">>, <<"Hb (o.e.)">>, <<"Hb">>, <<"Haemoglobin">>, <<"Def">>}

\* C6: when the backend resolves a concept id to a Fully Specified Name f and a
\* Preferred Term p, get_concept_details of either variant returns exactly
\* {concept_id: the input id, fsn: f, pt: p}; fsn is then not "Unknown".
C6_ResolvedNamesReturned ==
    (LookupReturned /\ AnsweredObject) =>
        \A f \in NamesInAnswers :
            ResolvesFsn(reply.json.value, f) =>
                \A p \in NamesInAnswers :
                    ResolvesPt(reply.json.value, p) =>
                        /\ ~result.raised
                        /\ result.value = [concept_id |-> call.concept_id, fsn |-> f, pt |-> p]
                        /\ result.value.fsn # UNKNOWN

C6_Witness ==
    /\ LookupReturned
    /\ AnsweredObject
    /\ adapter.kind = "ontoserver"
    /\ Resolves(reply.json.value, <<"Hb (obs)">>, <<"Hb">>)
    /\ result.value = [concept_id |-> call.concept_id, fsn |-> <<"Hb (obs)">>, pt |-> <<"Hb">>]


\* the part of the url parameter after 'fhir_vs=ecl/'
AfterFhirVsEcl(url) ==
    LET at == {i \in 1..(Len(url) - 1) : url[i] = "?fhir_vs=" /\ url[i + 1] = "ecl/"}
        first == CHOOSE i \in at : \A j \in at : i <= j
    IN  IF at = {} THEN None ELSE SubSeq(url, first + 2, Len(url))

\* the expression the server reads out of the request
ExpressionInRequest(req) ==
    IF req.method = "GET"
    THEN Unquote(AfterFhirVsEcl(req.params.url))
    ELSE req.json.compose.include[1].filter[1].value

\* C7: the request the authenticated variant constructs carries the expression
\* unmutated: in query-parameter mode, percent-decoding the part of the url value
\* after 'fhir_vs=ecl/' yields the input; in POST-body mode the filter's value
\* field is the input.
C7_ExpressionRoundTrips ==
    (pc = "waiting" /\ call.op = "execute_ecl_query" /\ adapter.kind = "ontoserver") =>
        /\ request.method = (IF adapter.use_post THEN "POST" ELSE "GET")
        /\ ExpressionInRequest(request) = call.ecl_expression

C7_Witness ==
    /\ pc = "waiting"
    /\ call.op = "execute_ecl_query"
    /\ call.ecl_expression = <<"%", "4", "1">>
    /\ request.method = "GET"
    /\ AfterFhirVsEcl(request.params.url) = <<"%", "2", "5", "4", "1">>


NoDuplicates(ids) == \A i, j \in DOMAIN ids : ids[i] = ids[j] => i = j

Occurrences(ids, id) == Cardinality({i \in DOMAIN ids : ids[i] = id})

\* C8 as stated: the items of every Query Result hold no concept id twice, whatever
\* the backend's response contains.
C8_ItemsNeverRepeatAnId ==
    QueryReturned => NoDuplicates(ResultIds)

\* C8 as amended: the adapter adds no duplicate of its own. No concept id occurs
\* more often in items than among the concepts of the backend's response, so items
\* holds no concept id twice whenever the response holds none twice.
C8_NoDuplicateAdded ==
    QueryReturned =>
        /\ \A id \in Range(ResultIds) :
              Occurrences(ResultIds, id) <= Occurrences(AnswerIds, id)
        /\ NoDuplicates(AnswerIds) => NoDuplicates(ResultIds)

C8_Witness ==
    /\ QueryReturned
    /\ adapter.kind = "ontoserver"
    /\ Len(ResultIds) = 2
    /\ NoDuplicates(AnswerIds)
    /\ NoDuplicates(ResultIds)
    /\ "designation" \in DOMAIN AnswerConcepts[1]

\* the limit the request carries to the backend
LimitInRequest(req) ==
    IF adapter.kind = "loincsnomed" THEN req.params.limit ELSE req.params.count

\* C9 as stated: the items of execute_ecl_query(expression, limit) are at most
\* limit, whatever the backend returns.
C9_ItemsWithinLimitAlways ==
    QueryReturned => Len(Get(result.value, "items", <<>>)) <= call.limit

\* C9 as amended: the limit is passed on to the backend unchanged (limit, or count
\* for the FHIR variant) and the adapter returns as many items as the response
\* carries, never more: items are at most limit whenever the backend returns at
\* most limit concepts. total may be larger than the number of items returned.
C9_ItemsWithinLimitIfBackendHonoursIt ==
    QueryReturned =>
        /\ LimitInRequest(request) = call.limit
        /\ Len(Get(result.value, "items", <<>>)) <= Len(AnswerConcepts)
        /\ Len(AnswerConcepts) <= call.limit =>
              Len(Get(result.value, "items", <<>>)) <= call.limit

C9_Witness ==
    /\ QueryReturned
    /\ call.limit = 1
    /\ Len(AnswerConcepts) = 1
    /\ AnswerHasConceptsAndTotal
    /\ Len(result.value.items) = 1
    /\ result.value.total > Len(result.value.items)

\* the connection parameters of the adapter
ConnectionParameters ==
    IF adapter.kind = "loincsnomed"
    THEN <<adapter.api_base, adapter.branch>>
    ELSE <<adapter.base_url, adapter.version_url, adapter.code_system_url,
           adapter.use_post, adapter.cert_path, adapter.cert_password>>

\* C10: after construction no operation of an adapter (execute_ecl_query,
\* get_concept_details, _get_session), in any order and any number of times,
\* changes the adapter's connection parameters.
C10_ConnectionParametersFrozen ==
    [][ConnectionParameters' = ConnectionParameters /\ adapter'.kind = adapter.kind]_vars

\* a second call has run on an adapter whose first call left its files behind
C10_Witness ==
    /\ pc = "returned"
    /\ call.op = "_get_session"
    /\ tempFiles = 2
    /\ result.value = PlainSession
    /\ adapter.cert_path = <<"/certs/client.p12">>

-----------------------------------------------------------------------------
(* Properties of the display fetcher *)

AsyncReturned == input.kind = "fetch_displays" /\ pc = "done"

\* the local mapping the asynchronous run works with
AsyncLocal == call.local_loinc

\* the displays the response of lookup i names
ResponseDisplays(i) ==
    LET response == tasks[i].reply
        params == IF ~response.exception /\ response.status = STATUS_OK
                     /\ response.json.type = "dict"
                  THEN Range(Get(response.json.value, "parameter", <<>>))
                  ELSE {}
    IN  {q.valueString : q \in {r \in params : Get(r, "name", None) = <<"display">>
                                                /\ "valueString" \in DOMAIN r}}

\* what lookup i may give its code: the local name, a display of its own
\* response, or its own fallback
OwnDisplays(i) ==
    LET loinc_code == input.loinc_codes[i]
    IN  IF loinc_code \in DOMAIN AsyncLocal THEN {AsyncLocal[loinc_code]}
        ELSE ResponseDisplays(i) \cup {LoincFallback(loinc_code)}

\* C11: a fan-out of K lookups with pairwise distinct codes over the worker pool of
\* fetch_displays_async, under every interleaving of the workers and of the
\* responses, returns a mapping whose keys are exactly the K codes, and the value
\* under each code comes from that code's own lookup only (its local name, its own
\* response, or its own fallback 'LOINC <code>').
C11_FanOutKeepsLookupsApart ==
    (AsyncReturned /\ NoDuplicates(input.loinc_codes)) =>
        LET displays == result.async_displays.value
        IN  /\ ~result.async_displays.raised
            /\ DOMAIN displays = Range(input.loinc_codes)
            /\ \A i \in DOMAIN input.loinc_codes :
                  /\ tasks[i].result[1] = input.loinc_codes[i]
                  /\ displays[input.loinc_codes[i]] = tasks[i].result[2]
                  /\ displays[input.loinc_codes[i]] \in OwnDisplays(i)

C11_Witness ==
    /\ AsyncReturned
    /\ input.loinc_codes = <<(<<"2345-7">>), (<<"1920-8">>)>>
    /\ input.max_concurrent = 2
    /\ tasks[1].reply.status = STATUS_OK
    /\ tasks[2].reply.status = 404
    /\ result.async_displays.value[<<"2345-7">>] = <<"Glucose [Mass/volume]">>
    /\ result.async_displays.value[<<"1920-8">>] = <<"LOINC ", "1920-8">>

-----------------------------------------------------------------------------
(* Certificates *)

\* the caller names a certificate path of its own in the call of the factory
ExplicitCertPath(kwargs) == "cert_path" \in DOMAIN kwargs /\ Truthy(kwargs["cert_path"])

\* the certificate at the path cannot be read on this machine: there is no such
\* file, or neither way of decoding it works
Unreadable(machine) ==
    \/ ~machine.exists
    \/ machine.direct_decoding = "fails" /\ machine.pkcs12_adapter = "fails"

\* C12: constructing the authenticated adapter with an explicitly provided
\* certificate path that cannot be read raises a configuration error at
\* construction time.
C12_UnreadableCertificateRaises ==
    (/\ FactoryDone
     /\ Lower(input.server_type) = TAG_ONTOSERVER
     /\ BundleFits(input.kwargs, TAG_ONTOSERVER)
     /\ ExplicitCertPath(input.kwargs)
     /\ Unreadable(input.machine)) =>
        /\ result.raised
        /\ adapter = NoAdapter

\* a query or lookup of the authenticated variant has issued its request
AuthenticatedCallSent ==
    /\ adapter.kind = "ontoserver"
    /\ call.op \in {"execute_ecl_query", "get_concept_details"}
    /\ pc \in {"waiting", "returned"}

\* the adapter has no certificate path, or the call found no file at that path
NoCertificateAvailable == ~Truthy(adapter.cert_path) \/ ~call.machine.exists

\* the server rejected the request for want of authentication
ServerRejected == ~reply.exception /\ reply.status \in {401, 403}

\* C13: when no certificate is configured, or the configured certificate file does
\* not exist, every query and lookup of the authenticated variant is sent with a
\* session that presents no client certificate; the call does not raise, and a
\* server-side rejection surfaces as the empty Query Result or the "Unknown"
\* descriptor.
C13_NoCertificateNoClientAuth ==
    (AuthenticatedCallSent /\ NoCertificateAvailable) =>
        /\ request.session.cert = "none"
        /\ request.session.https_adapter = "default"
        /\ pc = "returned" =>
              /\ ~result.raised
              /\ (ServerRejected /\ call.op = "execute_ecl_query") =>
                    IsEmptyQueryResult(result.value)
              /\ (ServerRejected /\ call.op = "get_concept_details") =>
                    result.value = UnknownDescriptor(call.concept_id)

C13_Witness ==
    /\ AuthenticatedCallSent
    /\ pc = "returned"
    /\ HAS_PKCS12
    /\ adapter.cert_path = <<"/certs/client.p12">>
    /\ ~call.machine.exists
    /\ call.machine.direct_decoding = "ok"
    /\ call.op = "execute_ecl_query"
    /\ reply.status = 401
    /\ request.session = PlainSession
    /\ result.value.items = <<>>

-----------------------------------------------------------------------------
(* The two interfaces of the display fetcher *)

\* fetch_displays has run on a LOINCDisplayFetcher before fetch_displays_async
SyncRan == fetcher.kind = "LOINCDisplayFetcher"

\* C14: for the same list of codes, the same local CSV mapping and a backend that
\* answers each code the same way every time, fetch_displays and
\* fetch_displays_async return equal code-to-display mappings, under every
\* interleaving of the parallel workers.
C14_SyncAndAsyncAgree ==
    (AsyncReturned /\ SyncRan) =>
        /\ ~result.sync_displays.raised
        /\ ~result.async_displays.raised
        /\ result.sync_displays.value = result.async_displays.value

C14_Witness ==
    /\ AsyncReturned
    /\ SyncRan
    /\ input.loinc_codes = <<(<<"2345-7">>), (<<"1920-8">>)>>
    /\ input.max_concurrent = 2
    /\ result.sync_displays.value[<<"1920-8">>] = <<"Aspartate aminotransferase">>
    /\ result.async_displays.value[<<"2345-7">>] = <<"LOINC ", "2345-7">>
    /\ tasks[1].reply.status = STATUS_OK
    /\ tasks[2].request = NoRequest

\* the synchronous run is under way or over
InSyncRun == SyncRan /\ pc \in {"sync", "sync_waiting"}

\* C15: the display lookup consults the local CSV mapping first and calls the
\* terminology server only when the local lookup fails: for a code of the local
\* mapping, get_display and _fetch_single_sync return the local name and issue no
\* network request.
C15_LocalFirst ==
    /\ InSyncRun =>
          /\ request # NoRequest => request.params.code \notin DOMAIN fetcher.local_loinc
          /\ \A loinc_code \in (DOMAIN call.results) \cap (DOMAIN fetcher.local_loinc) :
                call.results[loinc_code] = fetcher.local_loinc[loinc_code]
    /\ (input.kind = "fetch_displays" /\ pc \in {"async", "done"}) =>
          \A i \in DOMAIN tasks :
              LET loinc_code == input.loinc_codes[i]
              IN  loinc_code \in DOMAIN call.local_loinc =>
                     /\ tasks[i].request = NoRequest
                     /\ tasks[i].reply = NoResponse
                     /\ tasks[i].state = "done" =>
                           tasks[i].result = <<loinc_code, call.local_loinc[loinc_code]>>

C15_Witness ==
    /\ AsyncReturned
    /\ SyncRan
    /\ input.loinc_codes = <<(<<"1920-8">>), (<<"2345-7">>)>>
    /\ DOMAIN call.local_loinc = {<<"1920-8">>}
    /\ tasks[1].request = NoRequest
    /\ tasks[1].result = <<(<<"1920-8">>), (<<"Aspartate aminotransferase">>)>>
    /\ tasks[2].request.params.code = <<"2345-7">>
    /\ result.sync_displays.value[<<"1920-8">>] = <<"Aspartate aminotransferase">>

-----------------------------------------------------------------------------
(* Normalization of a FHIR expansion *)

\* a successful FHIR answer has been turned into a Query Result
FhirQueryNormalized == QueryReturned /\ AnsweredObject /\ adapter.kind = "ontoserver"

UseCode(designation) == Get(Get(designation, "use", EmptyDict), "code", <<>>)

\* the values of the designations of a concept that carry the use code
DesignationValues(concept, use_code) ==
    {d.value : d \in {x \in Range(Get(concept, "designation", <<>>)) :
                         UseCode(x) = use_code /\ "value" \in DOMAIN x}}

IsNameDesignation(designation) == UseCode(designation) \in {FSN_TYPE, PT_TYPE}

\* the concept without its designations of other use codes
WithoutOtherDesignations(concept) ==
    IF "designation" \in DOMAIN concept
    THEN [concept EXCEPT !["designation"] = SelectSeq(@, IsNameDesignation)]
    ELSE concept

\* C16: for each entry of expansion.contains in a successful FHIR response, the
\* normalized item's fsn is the value of a designation whose use code is
\* 900000000000003001 when such a designation exists and the entry's display
\* ('Unknown' when it has none) otherwise; its pt is the value of a designation
\* whose use code is 900000000000013009 when such a designation exists and the
\* entry's display otherwise; designations with any other use code affect neither.
C16_DesignationsDecideNames ==
    FhirQueryNormalized =>
        /\ Len(result.value.items) = Len(AnswerConcepts)
        /\ \A i \in DOMAIN AnswerConcepts :
              LET concept == AnswerConcepts[i]
                  item == result.value.items[i]
                  display == Get(concept, "display", UNKNOWN)
                  fsnValues == DesignationValues(concept, FSN_TYPE)
                  ptValues == DesignationValues(concept, PT_TYPE)
              IN  /\ IF fsnValues # {} THEN item.fsn.term \in fsnValues
                     ELSE item.fsn.term = display
                  /\ IF ptValues # {} THEN item.pt.term \in ptValues
                     ELSE item.pt.term = display
                  /\ item = NormalizeConcept(WithoutOtherDesignations(concept))

C16_Witness ==
    /\ FhirQueryNormalized
    /\ Len(AnswerConcepts) = 2
    /\ DesignationValues(AnswerConcepts[1], FSN_TYPE) = {}
    /\ DesignationValues(AnswerConcepts[1], PT_TYPE) = {<<"Haemoglobin">>}
    /\ Len(AnswerConcepts[1].designation) = 2
    /\ result.value.items[1].fsn.term = <<"Hb">>
    /\ result.value.items[1].pt.term = <<"Haemoglobin">>
    /\ result.value.items[2].fsn.term = <<"RBC (obs)">>

\* C17: for a successful FHIR response, the returned total equals expansion.total
\* when that field is present, and the number of returned items when it is absent.
C17_TotalFromExpansionOrCount ==
    FhirQueryNormalized =>
        LET expansion == Get(reply.json.value, "expansion", EmptyDict)
        IN  result.value.total = IF "total" \in DOMAIN expansion THEN expansion.total
                                 ELSE Len(result.value.items)

C17_Witness ==
    /\ FhirQueryNormalized
    /\ "expansion" \in DOMAIN reply.json.value
    /\ DOMAIN reply.json.value.expansion = {"contains"}
    /\ Len(reply.json.value.expansion.contains) = 2
    /\ result.value.total = 2

-----------------------------------------------------------------------------
(* The Fully Specified Name of the public variant's lookup *)

\* a successful answer of the public variant has been turned into a descriptor
SnowstormLookupAnswered == LookupReturned /\ AnsweredObject /\ adapter.kind = "loincsnomed"

\* the positions of the descriptions typed as Fully Specified Name
FsnPositions(body) ==
    LET descriptions == Get(body, "descriptions", <<>>)
    IN  {i \in DOMAIN descriptions : IsFsnDescription(descriptions[i])}

\* the first of them
FirstFsnDescription(body) ==
    body.descriptions[CHOOSE i \in FsnPositions(body) : \A j \in FsnPositions(body) : i <= j]

\* C18 as stated: on a successful response, fsn is the term of the first
\* description whose type identifier is 900000000000003001; when no description
\* has that type, fsn is "Unknown".
C18_FsnFromDescriptionsOrUnknown ==
    SnowstormLookupAnswered =>
        IF FsnPositions(reply.json.value) # {}
        THEN "term" \in DOMAIN FirstFsnDescription(reply.json.value) =>
                result.value.fsn = FirstFsnDescription(reply.json.value).term
        ELSE result.value.fsn = UNKNOWN

\* C18 as amended: on a successful response whose fsn and pt fields are objects or
\* absent, fsn is the term of the first description whose type identifier is
\* 900000000000003001 when that description carries a term; otherwise it is the
\* term of the response's own fsn object, and "Unknown" only when that is missing
\* too. A null fsn field that has to be read, or a null pt field, makes the lookup
\* return the "Unknown" descriptor.
C18_FsnFromDescriptionsThenFsnField ==
    SnowstormLookupAnswered =>
        LET body == reply.json.value
            fsnField == Get(body, "fsn", EmptyDict)
            ptField == Get(body, "pt", EmptyDict)
            described == /\ FsnPositions(body) # {}
                         /\ "term" \in DOMAIN FirstFsnDescription(body)
        IN  IF ptField = JsonNull \/ (~described /\ fsnField = JsonNull)
            THEN result.value = UnknownDescriptor(call.concept_id)
            ELSE IF described
            THEN result.value.fsn = FirstFsnDescription(body).term
            ELSE IF "term" \in DOMAIN fsnField
            THEN result.value.fsn = fsnField.term
            ELSE result.value.fsn = UNKNOWN

C18_Witness ==
    /\ SnowstormLookupAnswered
    /\ FsnPositions(reply.json.value) = {}
    /\ Len(Get(reply.json.value, "descriptions", <<>>)) = 1
    /\ Get(reply.json.value, "fsn", EmptyDict) = [term |-> <<"Hb (obs)">>]
    /\ result.value.fsn = <<"Hb (obs)">>

-----------------------------------------------------------------------------
(* The requests of a query *)

\* C19: the request encoding of an authenticated adapter is fixed at construction:
\* across any sequence of calls, an adapter built with use_post false issues every
\* query as a GET and never a POST, one built with use_post true issues every query
\* as a POST and never a GET, and no argument of a call changes the mode.
C19_EncodingFixedAtConstruction ==
    [][/\ adapter.kind = "ontoserver" =>
            /\ adapter'.kind = "ontoserver"
            /\ adapter'.use_post = adapter.use_post
       /\ (adapter.kind = "ontoserver" /\ pc' = "waiting" /\ call'.op = "execute_ecl_query") =>
            request'.method = (IF adapter.use_post THEN "POST" ELSE "GET")]_vars

\* a query in POST-body mode, issued after an earlier call of the same adapter
\* (which left its temporary files behind)
C19_Witness ==
    /\ pc = "waiting"
    /\ call.op = "execute_ecl_query"
    /\ adapter.kind = "ontoserver"
    /\ adapter.use_post
    /\ call.limit = 1
    /\ tempFiles = 2
    /\ request.session = PlainSession
    /\ request.method = "POST"

\* C20: every execute_ecl_query call of the public variant issues a single GET to
\* {base}/{branch}/concepts whose query parameters are exactly ecl = the unmodified
\* expression, limit = the caller's limit, and activeFilter = true; the filter is
\* applied on every call and no argument switches it off.
C20_PublicQueryRequest ==
    (adapter.kind = "loincsnomed" /\ call.op = "execute_ecl_query"
        /\ pc \in {"waiting", "returned"}) =>
        /\ request.method = "GET"
        /\ request.url = adapter.api_base \o <<"/">> \o adapter.branch \o <<"/concepts">>
        /\ DOMAIN request.params = {"ecl", "limit", "activeFilter"}
        /\ request.params.ecl = call.ecl_expression
        /\ request.params.limit = call.limit
        /\ request.params.activeFilter = <<"true">>
        /\ request.json = EmptyDict

C20_Witness ==
    /\ adapter.kind = "loincsnomed"
    /\ call.op = "execute_ecl_query"
    /\ pc = "returned"
    /\ call.ecl_expression = <<"a", "%", "4", "1">>
    /\ call.limit = 2
    /\ request.params = [ecl |-> <<"a", "%", "4", "1">>, limit |-> 2, activeFilter |-> <<"true">>]
    /\ request.url = DEFAULT_API_BASE \o <<"/">> \o DEFAULT_BRANCH \o <<"/concepts">>


-----------------------------------------------------------------------------
(* One network request per call *)

\* the attributes an adapter has: the connection parameters of its variant
AdapterAttributes(self) ==
    IF self.kind = "ontoserver"
    THEN {"kind", "base_url", "code_system_url", "version_url", "use_post",
          "cert_path", "cert_password"}
    ELSE {"kind", "api_base", "branch"}

\* the step begins a query or lookup
CallBegins ==
    pc = "idle" /\ pc' = "waiting" /\ call'.op \in {"execute_ecl_query", "get_concept_details"}

\* what the call that begins puts on the wire
FirstRequest ==
    LET session == SessionFor(adapter, call'.machine).session
    IN  IF call'.op = "execute_ecl_query"
        THEN QueryRequest(adapter, call'.ecl_expression, call'.limit, session)
        ELSE LookupRequest(adapter, call'.concept_id, session)

\* the result of the call in progress is the one its own answer gives
ResultOfOwnAnswer ==
    IF call.op = "execute_ecl_query"
    THEN \E execution_time \in ElapsedTimes :
            result' = QueryResult(adapter, reply', execution_time)
    ELSE result' = LookupResult(adapter, reply', call.concept_id)

\* C21: each call of execute_ecl_query or get_concept_details issues at most one
\* network request. A call begins by issuing a request whatever was asked and
\* answered before (between calls nothing is left of a request, an answer or a
\* result, and the adapter has no attribute to keep one in); while the call waits,
\* its request stands as issued, and the step that ends the request, successful or
\* not, ends the call with the result of that one answer.
C21_OneRequestPerCall ==
    [][/\ DOMAIN adapter = AdapterAttributes(adapter)
       /\ adapter' = adapter
       /\ pc = "idle" => (request = NoRequest /\ reply = NoResponse /\ result = NoResult)
       /\ CallBegins => (request' = FirstRequest /\ reply' = NoResponse)
       /\ request' # request => (CallBegins \/ (pc = "returned" /\ request' = NoRequest))
       /\ (pc = "waiting" /\ call.op \in {"execute_ecl_query", "get_concept_details"}) =>
            /\ pc' = "returned"
            /\ request' = request
            /\ call' = call
            /\ ResultOfOwnAnswer]_vars

\* a query whose request failed has returned, its one request still the one issued
C21_Witness ==
    /\ pc = "returned"
    /\ call.op = "execute_ecl_query"
    /\ adapter.kind = "ontoserver"
    /\ reply = NetworkError
    /\ request = QueryRequest(adapter, call.ecl_expression, call.limit,
                              SessionFor(adapter, call.machine).session)
    /\ result.value.total = 0
    /\ tempFiles = 2


-----------------------------------------------------------------------------
(* Session establishment with a certificate file *)

\* the call went into the branch of _get_session that reads the certificate file
CertificateFileRead ==
    /\ AuthenticatedCallSent
    /\ HAS_PKCS12
    /\ Truthy(adapter.cert_path)
    /\ call.machine.exists

LibraryAdapterMounted == request.session.https_adapter = "pkcs12"

PresentsPemPair == request.session.cert = "pem_pair"

-----------------------------------------------------------------------------
(* Sessions of concurrent lookups on one adapter *)

\* C23: every lookup that goes to the server builds a session of its own: the
\* session it works with was not in use before the lookup began, it is in use by
\* that lookup alone, and it is given up when the lookup returns, so that between
\* the lookups of fetch_displays no session is left for a later one, and among the
\* pool threads of fetch_displays_async no two lookups in progress share a session.
\* The adapter the lookups share has no attribute for a session and is not written.
C23_OwnSessionPerCall ==
    [][/\ (pc # "start" /\ adapter # NoAdapter) =>
            (adapter' = adapter /\ DOMAIN adapter = AdapterAttributes(adapter))
       /\ pc' = "sync_waiting" =>
            (call'.session \notin sessions /\ sessions' = {call'.session})
       /\ pc' \in {"sync", "sync_done", "done"} => sessions' = {}
       /\ pc' = "async" =>
            /\ \A i \in DOMAIN tasks' :
                 /\ tasks'[i].state = "waiting" <=> tasks'[i].session # NoSession
                 /\ tasks'[i].state = "waiting" => tasks'[i].session \in sessions'
                 /\ (i \in DOMAIN tasks /\ tasks[i].state = "queued"
                        /\ tasks'[i].state = "waiting") => tasks'[i].session \notin sessions
            /\ \A i, j \in Running' : i # j => tasks'[i].session # tasks'[j].session
            /\ Cardinality(sessions') = Cardinality(Running')]_vars

\* two lookups in progress on the shared adapter, their sessions configured alike
\* and yet two objects
C23_Witness ==
    /\ pc = "async"
    /\ Running = {1, 2}
    /\ input.loinc_codes[1] # input.loinc_codes[2]
    /\ tasks[1].request.session = tasks[2].request.session
    /\ tasks[1].request.session.https_adapter = "pkcs12"
    /\ tasks[1].session # tasks[2].session
    /\ sessions = {tasks[1].session, tasks[2].session}


-----------------------------------------------------------------------------
(* A rejected query and a query without matches *)

\* the $expand answers of a server that found no concept: an expansion without
\* entries (FHIR leaves an empty contains out) whose total, if given, is 0
ZeroMatchBodies ==
    {b \in FhirQueryBodies :
        /\ "expansion" \in DOMAIN b
        /\ Get(b.expansion, "contains", <<>>) = <<>>
        /\ Get(b.expansion, "total", 0) = 0}

\* the Query Result execute_ecl_query returns for a successful answer
ResultOfSuccess(body, execution_time) ==
    OntoServerQueryResult(Response(STATUS_OK, JsonDict(body)), execution_time)

\* C24: for the authenticated variant, the Query Result returned when the server
\* rejects authentication (401/403) has the same fields, the same items and the
\* same total as the one returned for a successful answer with zero matches: apart
\* from the elapsed time, the two results are the same value.
C24_RejectionLooksLikeNoMatch ==
    (QueryReturned /\ adapter.kind = "ontoserver" /\ ServerRejected) =>
        /\ ~result.raised
        /\ \A body \in ZeroMatchBodies :
              LET success == ResultOfSuccess(body, result.value.execution_time)
              IN  /\ ~success.raised
                  /\ DOMAIN success.value = DOMAIN result.value
                  /\ success.value.items = result.value.items
                  /\ success.value.total = result.value.total
                  /\ success.value = result.value

\* a query sent with a client certificate and rejected with 403
C24_Witness ==
    /\ QueryReturned
    /\ adapter.kind = "ontoserver"
    /\ reply.status = 403
    /\ request.session.cert = "pem_pair"
    /\ result.value.items = <<>>
    /\ result.value.total = 0
    /\ result.value = ResultOfSuccess("expansion" :> ("total" :> 0), result.value.execution_time).value


-----------------------------------------------------------------------------
(* Calls without a timeout *)

CallWaiting == pc = "waiting" /\ call.op \in {"execute_ecl_query", "get_concept_details"}

\* the network call of the call in progress has ended, with a response or a failure
RequestEnded == reply # NoResponse

\* C25: no adapter call applies a timeout. A call that waits for its request does
\* nothing but wait (no step gives it a result while the request has not ended),
\* and the step in which the request ends, with a response or with a failure, is
\* the step in which the call returns; on a network where every request ends at
\* some time, every call returns.
C25_ReturnsWhenRequestEnds ==
    /\ [][CallWaiting =>
            /\ RequestEnded'
            /\ pc' = "returned"
            /\ result' # NoResult]_vars
    /\ [](CallWaiting => ~RequestEnded /\ result = NoResult)
    /\ [](pc = "returned" /\ call.op \in {"execute_ecl_query", "get_concept_details"}
            => RequestEnded)
    /\ (CallWaiting ~> pc = "returned")

\* a lookup waits on a request that has not ended
C25_Witness ==
    /\ CallWaiting
    /\ call.op = "get_concept_details"
    /\ adapter.kind = "loincsnomed"
    /\ request.method = "GET"
    /\ reply = NoResponse
    /\ result = NoResult


-----------------------------------------------------------------------------
(* The worker pool of fetch_displays_async *)

\* C26: during fetch_displays_async at most max_concurrent lookups are in progress
\* at any moment, and the function returns only after the lookup of every input
\* code has completed, with one (code, display) result per input element.
C26_BoundedPoolAndFullGather ==
    /\ pc = "async" =>
          /\ Len(tasks) = Len(input.loinc_codes)
          /\ Cardinality(Running) <= input.max_concurrent
          /\ call.max_concurrent = input.max_concurrent
    /\ pc = "done" =>
          /\ Len(tasks) = Len(input.loinc_codes)
          /\ \A i \in DOMAIN input.loinc_codes :
                /\ tasks[i].state = "done"
                /\ Len(tasks[i].result) = 2
                /\ tasks[i].result[1] = input.loinc_codes[i]
          /\ ~result.async_displays.raised
          /\ DOMAIN result.async_displays.value
                = {input.loinc_codes[i] : i \in DOMAIN input.loinc_codes}

\* the pool is full: one lookup is in progress, the next one waits for the thread
C26_Witness ==
    /\ pc = "async"
    /\ input.max_concurrent = 1
    /\ Len(input.loinc_codes) = 2
    /\ tasks[1].state = "waiting"
    /\ tasks[2].state = "queued"
    /\ Running = {1}


-----------------------------------------------------------------------------
(* Temporary PEM files *)

\* the step builds a session of the authenticated variant: a query, a lookup or a
\* direct use of _get_session begins
SessionBuilt ==
    /\ pc = "idle"
    /\ pc' \in {"waiting", "returned"}
    /\ call'.op \in {"execute_ecl_query", "get_concept_details", "_get_session"}
    /\ adapter.kind = "ontoserver"

\* the session the step builds comes from the direct decoding of the certificate
DirectDecodingSucceeds ==
    /\ SessionBuilt
    /\ HAS_PKCS12
    /\ Truthy(adapter.cert_path)
    /\ call'.machine.exists
    /\ call'.machine.direct_decoding = "ok"

\* C27: every session built by the direct-decoding path adds two temporary PEM
\* files and nothing ever deletes one: the number of files only grows, by exactly
\* two for every query or lookup on that path and by nothing in every other step,
\* so the files outlive the call and the session that created them.
C27_TempFilesOnlyGrow ==
    [][/\ tempFiles' >= tempFiles
       /\ DirectDecodingSucceeds =>
             /\ tempFiles' = tempFiles + 2
             /\ call'.attempts = <<"direct">>
             /\ pc' = "waiting" => request'.session.cert = "pem_pair"
       /\ ~DirectDecodingSucceeds => tempFiles' = tempFiles
       /\ (pc = "returned" /\ pc' = "idle") => (sessions' = sessions \ {call.session})]_vars

\* a second query on the direct-decoding path is in progress: the two files of an
\* earlier call, whose session is gone, are still there beside its own two
C27_Witness ==
    /\ pc = "waiting"
    /\ call.op = "execute_ecl_query"
    /\ call.attempts = <<"direct">>
    /\ request.session.cert = "pem_pair"
    /\ sessions = {call.session}
    /\ tempFiles = 4


-----------------------------------------------------------------------------
(* The cache of a display fetcher *)

\* the codes get_display has returned a value for, in the run of fetch_displays
CodesReturned == {input.loinc_codes[j] : j \in 1..(call.i - 1)}

\* the step is a get_display for a code the fetcher has in its cache
CachedGetDisplay ==
    /\ pc = "sync"
    /\ call.i <= Len(input.loinc_codes)
    /\ input.loinc_codes[call.i] \in DOMAIN fetcher.cache

\* the one request of the run for the code ended in a failure
FailedOnce(loinc_code) ==
    /\ loinc_code \in DOMAIN input.backend
    /\ GetDisplayTry(input.backend[loinc_code], loinc_code).raised

\* C28: LOINCDisplayFetcher.cache is write-once per code. Every code get_display
\* has returned a value for is in the cache with that value, the fallback
\* 'LOINC <code>' after a failed or unsuccessful request included; an entry of the
\* cache never changes or disappears; and a later get_display for the code returns
\* the cached value without a network request, so a failure is never retried.
C28_CacheWriteOnce ==
    /\ [](InSyncRun =>
            \A loinc_code \in CodesReturned :
                /\ loinc_code \in DOMAIN fetcher.cache
                /\ fetcher.cache[loinc_code] = call.results[loinc_code])
    /\ [][SyncRan =>
            /\ fetcher'.kind = "LOINCDisplayFetcher"
            /\ \A loinc_code \in DOMAIN fetcher.cache :
                  /\ loinc_code \in DOMAIN fetcher'.cache
                  /\ fetcher'.cache[loinc_code] = fetcher.cache[loinc_code]]_vars
    /\ [][CachedGetDisplay =>
            /\ pc' = "sync"
            /\ request' = request
            /\ reply' = reply
            /\ sessions' = sessions
            /\ fetcher' = fetcher
            /\ call'.i = call.i + 1
            /\ call'.results[input.loinc_codes[call.i]]
                  = fetcher.cache[input.loinc_codes[call.i]]]_vars

\* the second get_display for a code whose request failed has returned: the
\* fallback of the first call, and no request but that first one
C28_Witness ==
    /\ pc = "sync"
    /\ call.i = 3
    /\ input.loinc_codes[1] = input.loinc_codes[2]
    /\ FailedOnce(input.loinc_codes[1])
    /\ fetcher.cache = (input.loinc_codes[1] :> LoincFallback(input.loinc_codes[1]))
    /\ call.results = fetcher.cache
    /\ reply = input.backend[input.loinc_codes[1]]


-----------------------------------------------------------------------------
(* Processes without the requests_pkcs12 library *)

\* a readable certificate file is configured for the call: the adapter names a
\* path, the file is there, and its direct decoding would succeed
ReadableCertificate ==
    /\ Truthy(adapter.cert_path)
    /\ call.machine.exists
    /\ call.machine.direct_decoding = "ok"

\* C29: when requests_pkcs12 cannot be imported (HAS_PKCS12 false), _get_session
\* returns a plain session without attempting the direct decoding, even when a
\* readable certificate file is configured: every request of the authenticated
\* variant goes out without a client certificate, and no PEM file is written.
C29_NoLibraryNoClientCertificate ==
    (~HAS_PKCS12 /\ adapter.kind = "ontoserver") =>
        /\ tempFiles = 0
        /\ AuthenticatedCallSent =>
              /\ call.attempts = <<>>
              /\ request.session = PlainSession
        /\ (call.op = "_get_session" /\ pc = "returned") =>
              /\ call.attempts = <<>>
              /\ result.value = PlainSession

\* a query with a readable certificate file in a process without the library: the
\* request went out on a plain session and the server refused it
C29_Witness ==
    /\ ~HAS_PKCS12
    /\ AuthenticatedCallSent
    /\ ReadableCertificate
    /\ call.op = "execute_ecl_query"
    /\ pc = "returned"
    /\ request.session = PlainSession
    /\ ~reply.exception
    /\ reply.status = 401


-----------------------------------------------------------------------------
(* One load of the LOINC CSV per process *)

LoadReturned == pc = "returned" /\ call.op = "_load_loinc_csv"

\* the step is a call of _load_loinc_csv
LoadStep == pc = "idle" /\ pc' = "returned" /\ call'.op = "_load_loinc_csv"

\* the file cannot be loaded as the call finds it
LoadFails(csv) == ~csv.configured \/ ~csv.exists \/ ~csv.readable

\* C30: _load_loinc_csv reads the LOINC CSV at most once per process. Its first
\* call sets the module-level cache, to the empty mapping when no path is
\* configured, the file is missing or the load fails; from then on the cache never
\* changes, and every later call returns that same mapping without opening the
\* file, whatever is at the path by then.
C30_LoadedOncePerProcess ==
    /\ [](LoadReturned =>
            /\ _LOINC_LOCAL_CACHE.loaded
            /\ result = Returned(_LOINC_LOCAL_CACHE.mapping)
            /\ call.opened => input.loads = 1)
    /\ [][(LoadStep /\ ~_LOINC_LOCAL_CACHE.loaded /\ LoadFails(input.csv)) =>
            _LOINC_LOCAL_CACHE' = Loaded(EmptyDict)]_vars
    /\ [][_LOINC_LOCAL_CACHE.loaded =>
            /\ _LOINC_LOCAL_CACHE' = _LOINC_LOCAL_CACHE
            /\ LoadStep =>
                  /\ ~call'.opened
                  /\ result' = Returned(_LOINC_LOCAL_CACHE.mapping)]_vars

\* the first call cached the empty mapping; a readable file with names in it is at
\* the path by now, and the second call has returned the empty mapping without
\* opening it
C30_Witness ==
    /\ LoadReturned
    /\ input.loads = 2
    /\ input.csv.exists
    /\ input.csv.readable
    /\ ReadRows(input.csv.rows, EmptyDict) # EmptyDict
    /\ ~call.opened
    /\ _LOINC_LOCAL_CACHE = Loaded(EmptyDict)
    /\ result.value = EmptyDict

=============================================================================
